---- MODULE Spec2Model ----
(***************************************************************************)
(* Order-execution pipeline of whisper-voice-trader                        *)
(* (core/order_executor.py, core/paper_trading_engine.py).                 *)
(*                                                                         *)
(* One execute call is a run of the program counter pc through the methods *)
(* of OrderExecutor in the order _execute_order_internal calls them.  Each *)
(* external capability (exchange, database) answers with a value drawn     *)
(* from a small set when the code calls it.  Python floats are modelled as *)
(* exact rationals; an optional value is a sequence of length 0 or 1.      *)
(***************************************************************************)
EXTENDS Integers, Sequences, FiniteSets, TLC

VARIABLES
    paper_trading_enabled, \* OrderExecutor._paper_trading_enabled
    order_counter,         \* PaperTradingEngine._order_counter
    db_orders,             \* rows of the orders table (insert_order)
    settings,              \* settings table: risk.max_notional_usd, risk.max_leverage
    ncalls,                \* number of execute calls started
    pc,                    \* position inside the current execute call
    entry,                 \* public entry point of the current call
    params0,               \* OrderParams as the caller built it
    params,                \* the same object as the pipeline sees (and mutates) it
    eff_price,             \* result of _get_effective_price (line 197)
    qty,                   \* calculate_position_size()[0]
    notional,              \* notional inside calculate_position_size
    required_margin,       \* calculate_position_size()[1]
    balance_info,          \* what exchange.get_balance() answered in this call
    raw_order,             \* the record the backend returned in this call
    dispatched,            \* line 204/207 was reached in this call
    counter0,              \* order_counter when the call started
    calls,                 \* external calls of this call, in order
    ticker_log,            \* what exchange.get_ticker() answered in this call, in order
    outcome,               \* "pending" | "returned" | "raised"
    category,              \* which except clause produced the result
    result,                \* the OrderResult handed to the caller
    sizing_args,           \* arguments of one calculate_position_size call
    sizing_fwd,            \* what that call produced
    sizing_rev,            \* what the call in the other direction produced
    has_sd,                \* voice_listener._HAS_SD: the microphone library was imported
    sensitivity,           \* ListenerSettings.sensitivity
    listener_mode,                  \* VoiceListener._mode
    stop_event,            \* VoiceListener._stop_event
    worker,                \* where the listener thread is inside run()
    elapsed,               \* time.time() - _active_mode_start, in seconds, saturating
    capture_from,          \* elapsed when the active chunk in flight began
    events,                \* every signal emitted so far, in order
    script_pos,            \* how many cycles have followed TranscriptScript (-1: left it)
    nchunks,               \* number of captures started
    nrequests,             \* number of start/stop requests made
    cycle,                 \* the current (or last) iteration of the loop
    parse_input,           \* the utterance given to CommandParser.parse
    parse_result,          \* what parse returned for it
    validate_cmd,          \* the command given to CommandValidator.validate
    validate_ret,          \* what validate returned for it
    risk_db,               \* what the settings store and the audit store answer
    risk_ctx,              \* the OrderRiskContext given to check_order_risk
    risk_calls,            \* the calls check_order_risk made on the database, in order
    risk_ret,              \* how check_order_risk ended
    engine_order_counter,  \* _order_counter of a PaperTradingEngine used on its own
    paper_log,             \* the execute_order calls made on it: arguments and return
    paper_threads          \* the threads that call execute_order on it at the same time

executor_vars == << paper_trading_enabled, order_counter, db_orders, settings,
                    ncalls, pc, entry, params0, params, eff_price, qty, notional,
                    required_margin, balance_info, raw_order, dispatched, counter0,
                    calls, ticker_log, outcome, category, result >>

sizing_vars == << sizing_args, sizing_fwd, sizing_rev >>

listener_vars == << has_sd, sensitivity, listener_mode, stop_event, worker, elapsed, capture_from,
                    events, script_pos, nchunks, nrequests, cycle >>

parser_vars == << parse_input, parse_result >>

validator_vars == << validate_cmd, validate_ret >>

risk_vars == << risk_db, risk_ctx, risk_calls, risk_ret >>

paper_vars == << engine_order_counter, paper_log, paper_threads >>

\* CommandValidator, RiskManager and a PaperTradingEngine of its own
small_vars == << validator_vars, risk_vars, paper_vars >>

\* everything the order executor never touches
outside_executor == << sizing_vars, listener_vars, parser_vars, small_vars >>

outside_sizing == << executor_vars, listener_vars, parser_vars, small_vars >>

outside_listener == << executor_vars, sizing_vars, parser_vars, small_vars >>

outside_parser == << executor_vars, sizing_vars, listener_vars, small_vars >>

outside_validator == << executor_vars, sizing_vars, listener_vars, parser_vars,
                        risk_vars, paper_vars >>

outside_risk == << executor_vars, sizing_vars, listener_vars, parser_vars,
                   validator_vars, paper_vars >>

outside_paper == << executor_vars, sizing_vars, listener_vars, parser_vars,
                    validator_vars, risk_vars >>

vars == << executor_vars, outside_executor >>

persistent == << paper_trading_enabled, order_counter, db_orders, settings >>

callvars == << entry, params0, params, eff_price, qty, notional, required_margin,
               balance_info, raw_order, dispatched, counter0, calls, ticker_log,
               outcome, category, result >>

----------------------------------------------------------------------------
(* Optional values and Python truthiness *)

None == << >>

Some(v) == << v >>

IsNone(o) == Len(o) = 0

Get(o) == o[1]

\* Python's "x or y" on optional numbers: None and 0 are falsy
Truthy(o) == ~IsNone(o) /\ Get(o) # 0

PyOr(a, b) == IF Truthy(a) THEN a ELSE b

----------------------------------------------------------------------------
(* Exact rationals for Python floats *)

Abs(x) == IF x < 0 THEN -x ELSE x

RECURSIVE GCD(_, _)
GCD(a, b) == IF b = 0 THEN a ELSE GCD(b, a % b)

\* n/d in lowest terms with a positive denominator (d # 0)
Rat(n, d) ==
    LET g == GCD(Abs(n), Abs(d))
        s == IF d < 0 THEN -1 ELSE 1
    IN  [n |-> (s * n) \div g, d |-> (s * d) \div g]

\* float(x) of an integer
ToFloat(i) == Rat(i, 1)

RatLess(a, b) == a.n * b.d < b.n * a.d

RatLeq(a, b) == a.n * b.d <= b.n * a.d

RatMul(a, b) == Rat(a.n * b.n, a.d * b.d)

\* a / b for b # 0
RatDiv(a, b) == Rat(a.n * b.d, a.d * b.n)

Zero == ToFloat(0)

----------------------------------------------------------------------------
(* Bounds of the model *)

MaxCalls == 2

(* Values the caller and the collaborators may supply *)

MinLeverage == 1

MaxLeverage == 125

Leverages == { -1, 0, 10, 126 }

Amounts == { 0, 100 }

Prices == { None, Some(0), Some(50) }

Sides == { "buy", "hold" }

AmountTypes == { "usd", "qty", "pct" }

OrderTypes == { "market", "limit" }

AllParams ==
    [ symbol : { Some("BTCUSDT") }, side : Sides, amount : Amounts,
      amount_type : AmountTypes, leverage : Leverages,
      order_type : OrderTypes, price : Prices ]

\* exchange.normalize_symbol: canonical symbol or None
NormalizedSymbols == { Some("BTC/USDT"), None }

\* exchange.get_ticker
Tickers ==
    { [kind |-> "raise",   last |-> None,     price |-> None,     close |-> None],
      [kind |-> "notdict", last |-> None,     price |-> None,     close |-> None],
      [kind |-> "dict",    last |-> None,     price |-> None,     close |-> None],
      [kind |-> "dict",    last |-> Some(50), price |-> None,     close |-> None],
      [kind |-> "dict",    last |-> Some(0),  price |-> None,     close |-> Some(40)],
      [kind |-> "dict",    last |-> Some(0),  price |-> None,     close |-> Some(-5)],
      [kind |-> "dict",    last |-> Some(-1), price |-> Some(50), close |-> None] }

\* exchange.get_balance
Balances ==
    { [kind |-> "raise",   free |-> None],
      [kind |-> "notdict", free |-> None],
      [kind |-> "dict",    free |-> None],
      [kind |-> "dict",    free |-> Some(9)],
      [kind |-> "dict",    free |-> Some(10)],
      [kind |-> "dict",    free |-> Some(100000)] }

\* exchange.create_order
CreateAnswers ==
    { [kind |-> "raise", id |-> None, orderId |-> None, status |-> None,
       filled |-> None, amount |-> None, average |-> None, price |-> None],
      [kind |-> "dict", id |-> Some(<<"ex", 7>>), orderId |-> None,
       status |-> Some("closed"), filled |-> Some(ToFloat(2)),
       amount |-> Some(ToFloat(2)), average |-> Some(ToFloat(50)),
       price |-> Some(ToFloat(50))],
      [kind |-> "dict", id |-> None, orderId |-> Some(<<"ex", 8>>),
       status |-> Some("open"), filled |-> Some(ToFloat(0)),
       amount |-> Some(ToFloat(2)), average |-> None, price |-> Some(ToFloat(50))],
      [kind |-> "dict", id |-> None, orderId |-> None, status |-> None,
       filled |-> None, amount |-> None, average |-> None, price |-> None] }

\* behaviour of the database during record_order
DbModes == { "ok", "insert_order_raises", "insert_system_log_raises" }

RiskSettings ==
    [ max_notional_usd : { None, Some(50) }, max_leverage : { None, Some(20) } ]

----------------------------------------------------------------------------
(* utils/validators.py: the checks return a verdict and never raise *)

validate_leverage(leverage) == leverage >= MinLeverage /\ leverage <= MaxLeverage

validate_quantity(quantity) == quantity > 0

validate_price(price) == price > 0

----------------------------------------------------------------------------
(* OrderResult *)

\* a failure result that forgets its message
ErrorResultSilent(msg) ==
    [ success |-> FALSE, order_id |-> None, status |-> None, filled_qty |-> None,
      avg_price |-> None, error_message |-> None ]

ErrorResult(msg) ==
    [ success |-> FALSE, order_id |-> None, status |-> None, filled_qty |-> None,
      avg_price |-> None, error_message |-> Some(msg) ]

NoResult ==
    [ success |-> FALSE, order_id |-> None, status |-> None, filled_qty |-> None,
      avg_price |-> None, error_message |-> None ]

\* "a or b" on optional order ids (non-empty strings)
PyOrId(a, b) == IF IsNone(a) THEN b ELSE a

\* OrderResult(success=True, ...); float() of a float field is the field
SuccessResult(order_id, status, filled, avg_price) ==
    [ success |-> TRUE, order_id |-> order_id, status |-> status,
      filled_qty |-> filled, avg_price |-> avg_price,
      error_message |-> None ]

\* the except clauses of _execute_order_internal, in their order
HandlerOf(exc) ==
    CASE exc = "OrderValidationError"     -> "validation"
      [] exc = "InsufficientBalanceError" -> "insufficient_balance"
      [] exc = "OrderExecutionError"      -> "execution"
      [] OTHER                            -> "unexpected"

----------------------------------------------------------------------------
(* Pure parts of the pipeline *)

\* the guard of execute_market_order / execute_limit_order
TypeGuard(e, p) ==
    IF e = "market"
    THEN p.order_type = "market"
    ELSE p.order_type = "limit" /\ ~IsNone(p.price)

\* validate_order: exists and normalized are the exchange's answers.
\* The verdicts of validators.validate_symbol / validate_leverage /
\* validate_quantity / validate_price are computed and dropped.
validate_order(p, exists, normalized) ==
    LET p1 == [p EXCEPT !.symbol = normalized]
        leverage_verdict == validate_leverage(p.leverage)
        quantity_verdict == validate_quantity(p.amount)
        price_verdict == IsNone(p.price) \/ validate_price(Get(p.price))
    IN  IF ~exists
        THEN [exc |-> "OrderValidationError", msg |-> "invalid symbol", params |-> p]
        ELSE IF p1.amount <= 0
        THEN [exc |-> "OrderValidationError", msg |-> "amount must be positive", params |-> p1]
        ELSE IF p1.order_type = "limit" /\ IsNone(p1.price)
        THEN [exc |-> "OrderValidationError", msg |-> "limit order needs a price", params |-> p1]
        ELSE IF p1.order_type = "limit" /\ Get(p1.price) <= 0
        THEN [exc |-> "OrderValidationError", msg |-> "price must be positive", params |-> p1]
        ELSE IF p1.side \notin {"buy", "sell"}
        THEN [exc |-> "OrderValidationError", msg |-> "side must be buy or sell", params |-> p1]
        ELSE IF p1.amount_type \notin {"usd", "qty"}
        THEN [exc |-> "OrderValidationError", msg |-> "amount_type must be usd or qty", params |-> p1]
        ELSE [exc |-> "none", msg |-> "", params |-> p1]

\* the price _get_effective_price picks from a ticker
TickerPrice(ticker) ==
    IF ticker.kind = "dict"
    THEN PyOr(PyOr(ticker.last, ticker.price), ticker.close)
    ELSE None

\* only "not price": a negative price counts as usable
UnusableFalsyOnly(price) == ~Truthy(price)

\* "not price or price <= 0"
Unusable(price) == ~Truthy(price) \/ Get(price) <= 0

\* _get_effective_price, given the ticker's answer (not asked for a limit order)
get_effective_price(p, ticker) ==
    IF p.order_type = "limit"
    THEN IF IsNone(p.price)
         THEN [exc |-> "OrderValidationError", msg |-> "limit order needs a price",
               price |-> Zero]
         ELSE [exc |-> "none", msg |-> "", price |-> ToFloat(Get(p.price))]
    ELSE IF ticker.kind = "raise"
    THEN [exc |-> "Exception", msg |-> "ticker unavailable", price |-> Zero]
    ELSE IF Unusable(TickerPrice(ticker))
    THEN [exc |-> "OrderExecutionError", msg |-> "no valid price for symbol",
          price |-> Zero]
    ELSE [exc |-> "none", msg |-> "", price |-> ToFloat(Get(TickerPrice(ticker)))]

calculate_position_size_margin_of_qty(amount, price, leverage, amount_type) ==
    LET nq == IF amount_type = "usd"
              THEN [notional |-> amount, qty |-> RatDiv(amount, price)]
              ELSE [notional |-> RatMul(amount, price), qty |-> amount]
        bad(e, m) == [exc |-> e, msg |-> m, qty |-> Zero, notional |-> Zero,
                      required_margin |-> Zero]
    IN  IF RatLeq(price, Zero)
        THEN bad("OrderValidationError", "price is zero or negative")
        ELSE IF RatLeq(nq.qty, Zero) \/ RatLeq(nq.notional, Zero)
        THEN bad("OrderValidationError", "computed quantity or notional invalid")
        ELSE IF leverage = 0
        THEN bad("ZeroDivisionError", "division by zero")
        ELSE [exc |-> "none", msg |-> "", qty |-> nq.qty, notional |-> nq.notional,
              required_margin |-> RatDiv(nq.qty, ToFloat(leverage))]

calculate_position_size(amount, price, leverage, amount_type) ==
    LET nq == IF amount_type = "usd"
              THEN [notional |-> amount, qty |-> RatDiv(amount, price)]
              ELSE [notional |-> RatMul(amount, price), qty |-> amount]
        bad(e, m) == [exc |-> e, msg |-> m, qty |-> Zero, notional |-> Zero,
                      required_margin |-> Zero]
    IN  IF RatLeq(price, Zero)
        THEN bad("OrderValidationError", "price is zero or negative")
        ELSE IF RatLeq(nq.qty, Zero) \/ RatLeq(nq.notional, Zero)
        THEN bad("OrderValidationError", "computed quantity or notional invalid")
        ELSE IF leverage = 0
        THEN bad("ZeroDivisionError", "division by zero")
        ELSE [exc |-> "none", msg |-> "", qty |-> nq.qty, notional |-> nq.notional,
              required_margin |-> RatDiv(nq.notional, ToFloat(leverage))]

\* line 204 and line 323 (paper_engine is set by the constructor, never None)
UsePaper(enabled) == enabled

\* the balance is fetched whatever the mode
FetchesBalanceAlways(enabled, margin) == RatLess(Zero, margin)

\* check_balance reaches exchange.get_balance (lines 319-330)
FetchesBalance(enabled, margin) == RatLess(Zero, margin) /\ ~UsePaper(enabled)

\* "free_balance <= required_margin" rejects an exactly sufficient balance
BalanceVerdictStrict(info, margin) ==
    IF info.kind = "raise" THEN "Exception"
    ELSE IF info.kind # "dict" THEN "OrderExecutionError"
    ELSE IF IsNone(info.free) THEN "OrderExecutionError"
    ELSE IF RatLeq(ToFloat(Get(info.free)), margin) THEN "InsufficientBalanceError"
    ELSE "none"

\* check_balance after get_balance answered (lines 330-345)
BalanceVerdict(info, margin) ==
    IF info.kind = "raise" THEN "Exception"
    ELSE IF info.kind # "dict" THEN "OrderExecutionError"
    ELSE IF IsNone(info.free) THEN "OrderExecutionError"
    ELSE IF RatLess(ToFloat(Get(info.free)), margin) THEN "InsufficientBalanceError"
    ELSE "none"

\* PaperTradingEngine.execute_order: the record of the n-th paper order
PaperOrder(n, p, q, price) ==
    [ kind |-> "dict", id |-> Some(<<"paper", n>>), orderId |-> None,
      status |-> Some("closed"), filled |-> Some(q), amount |-> Some(q),
      average |-> Some(price), price |-> Some(price) ]

\* "x or y" on optional rationals
PyOrRat(a, b) == IF ~IsNone(a) /\ Get(a) # Zero THEN a ELSE b

----------------------------------------------------------------------------
(* record_order and the guard around it *)

\* the exception record_order re-raises for a database behaviour (lines 366-410)
record_order_exc(mode) == IF mode = "ok" THEN "none" ELSE "Exception"

\* the except clause around record_order (lines 210-214)
RecordGuardCatches(exc) == exc = "NotImplementedError"

\* the database calls record_order makes (the except branch logs once more)
record_order_calls(mode) ==
    CASE mode = "ok" -> << "insert_order", "insert_system_log" >>
      [] mode = "insert_order_raises" -> << "insert_order", "insert_system_log" >>
      [] OTHER -> << "insert_order", "insert_system_log", "insert_system_log" >>

\* the row of record_order with is_paper_trade always 0
OrderRow_never_paper(enabled, res) ==
    [ is_paper_trade |-> 0, exchange_order_id |-> res.order_id ]

\* the row record_order hands to insert_order
OrderRow(enabled, res) ==
    [ is_paper_trade |-> IF enabled THEN 1 ELSE 0, exchange_order_id |-> res.order_id ]

----------------------------------------------------------------------------
(* State machine *)

\* no calculate_position_size call of the sizing specification is open
SizingIdle ==
    /\ sizing_args = None
    /\ sizing_fwd = None
    /\ sizing_rev = None

\* ListenerSettings defaults (voice_listener.py lines 53 and 55), in seconds
active_mode_duration == 15

active_chunk_duration == 5

\* the seconds one transcribe_ndarray call can take
TranscribeSeconds == { 0, 2 }

\* elapsed times are told apart up to the end of the longest chunk that can
\* begin inside the active window
ElapsedCap == active_mode_duration + active_chunk_duration + 2

\* a cycle record of the listener loop: which loop ran, how it ended, the
\* mode run() read and the mode the thread's last step left, the level that
\* audio_level emitted for its chunk (-1: none emitted) and its transcript, whether a stop request arrived during a call in
\* flight, and the signals the thread emitted (all, and those after the stop)
NewCycle(kind, mode0) ==
    [ kind |-> kind, what |-> "running", mode0 |-> mode0, mode_after |-> mode0,
      level |-> -1, text |-> None, stop_in_flight |-> "none", emitted |-> << >>,
      after_stop |-> << >> ]

NoCycle == [ NewCycle("none", "idle") EXCEPT !.what = "none" ]

\* VoiceListener.__init__ (lines 109-124); the active window starts at time 0,
\* which is long ago
ListenerConstructed ==
    /\ listener_mode = "idle"
    /\ stop_event = FALSE
    /\ worker = "not_running"
    /\ elapsed = ElapsedCap
    /\ capture_from = 0
    /\ events = << >>
    /\ script_pos = 0
    /\ nchunks = 0
    /\ nrequests = 0
    /\ cycle = NoCycle

\* a listener with the default settings that was never started
ListenerIdle ==
    /\ has_sd = TRUE
    /\ sensitivity = 5
    /\ ListenerConstructed

\* no parse call of the parser specification is open
ParserIdle ==
    /\ parse_input = None
    /\ parse_result = None

\* no validate call of the validator specification is open
ValidatorIdle ==
    /\ validate_cmd = None
    /\ validate_ret = None

\* no check_order_risk call of the risk specification is open
RiskIdle ==
    /\ risk_db = None
    /\ risk_ctx = None
    /\ risk_calls = << >>
    /\ risk_ret = None

\* the threads that share one PaperTradingEngine
MaxCallers == 2

EngineCallers == 1..MaxCallers

\* a thread that has not called execute_order yet
CallerIdle ==
    [ at |-> "idle", args |-> None, loaded |-> 0, order |-> None, overlapped |-> { } ]

\* PaperTradingEngine.__init__ (line 27)
PaperIdle ==
    /\ engine_order_counter = 0
    /\ paper_log = << >>
    /\ paper_threads = [ t \in EngineCallers |-> CallerIdle ]

SmallIdle == ValidatorIdle /\ RiskIdle /\ PaperIdle

\* the other components are not running
OutsideExecutorIdle == SizingIdle /\ ListenerIdle /\ ParserIdle /\ SmallIdle

IdleCall ==
    /\ entry = "none"
    /\ params0 = None
    /\ params = None
    /\ eff_price = Zero
    /\ qty = Zero
    /\ notional = Zero
    /\ required_margin = Zero
    /\ balance_info = None
    /\ raw_order = None
    /\ dispatched = FALSE
    /\ counter0 = 0
    /\ calls = << >>
    /\ ticker_log = << >>
    /\ outcome = "pending"
    /\ category = "none"
    /\ result = NoResult

Init ==
    /\ paper_trading_enabled = FALSE
    /\ order_counter = 0
    /\ db_orders = << >>
    /\ settings \in RiskSettings
    /\ ncalls = 0
    /\ pc = "idle"
    /\ IdleCall
    /\ OutsideExecutorIdle

\* an except clause of _execute_order_internal returns the failure result
Fail(exc, msg) ==
    /\ pc' = "done"
    /\ outcome' = "returned"
    /\ category' = HandlerOf(exc)
    /\ result' = ErrorResult(msg)

set_paper_trading(enabled) ==
    /\ pc = "idle"
    /\ paper_trading_enabled' = enabled
    /\ UNCHANGED << order_counter, db_orders, settings, ncalls, pc >>
    /\ UNCHANGED callvars
    /\ UNCHANGED outside_executor

\* execute_market_order / execute_limit_order up to the delegation
Enter(e, p) ==
    /\ pc = "idle"
    /\ ncalls < MaxCalls
    /\ ncalls' = ncalls + 1
    /\ entry' = e
    /\ params0' = Some(p)
    /\ params' = Some(p)
    /\ counter0' = order_counter
    /\ IF TypeGuard(e, p)
       THEN /\ pc' = "validate"
            /\ outcome' = "pending"
       ELSE /\ pc' = "done"
            /\ outcome' = "raised"
    /\ UNCHANGED << ticker_log, eff_price, qty, notional, required_margin, balance_info,
                    raw_order, dispatched, calls, category, result >>
    /\ UNCHANGED persistent
    /\ UNCHANGED outside_executor

execute_market_order == \E p \in AllParams : Enter("market", p)

execute_limit_order == \E p \in AllParams : Enter("limit", p)

\* line 194
ValidateOrder ==
    /\ pc = "validate"
    /\ \E exists \in BOOLEAN, normalized \in NormalizedSymbols :
          LET v == validate_order(Get(params), exists, normalized)
          IN  /\ params' = Some(v.params)
              /\ calls' = calls \o (IF exists
                                    THEN << "validate_symbol", "normalize_symbol" >>
                                    ELSE << "validate_symbol" >>)
              /\ IF v.exc = "none"
                 THEN /\ pc' = "price"
                      /\ UNCHANGED << outcome, category, result >>
                 ELSE Fail(v.exc, v.msg)
    /\ UNCHANGED << ticker_log, entry, params0, eff_price, qty, notional, required_margin,
                    balance_info, raw_order, dispatched, counter0, ncalls >>
    /\ UNCHANGED persistent
    /\ UNCHANGED outside_executor

\* line 197
ResolvePrice ==
    /\ pc = "price"
    /\ \E ticker \in (IF Get(params).order_type = "limit"
                      THEN { CHOOSE t \in Tickers : t.kind = "raise" }
                      ELSE Tickers) :
          LET g == get_effective_price(Get(params), ticker)
          IN  /\ calls' = IF Get(params).order_type = "limit"
                          THEN calls
                          ELSE Append(calls, "get_ticker")
              /\ ticker_log' = IF Get(params).order_type = "limit"
                               THEN ticker_log
                               ELSE Append(ticker_log, ticker)
              /\ eff_price' = g.price
              /\ IF g.exc = "none"
                 THEN /\ pc' = "size"
                      /\ UNCHANGED << outcome, category, result >>
                 ELSE Fail(g.exc, g.msg)
    /\ UNCHANGED << entry, params0, params, qty, notional, required_margin,
                    balance_info, raw_order, dispatched, counter0, ncalls >>
    /\ UNCHANGED persistent
    /\ UNCHANGED outside_executor

\* lines 195-200
CalculatePositionSize ==
    /\ pc = "size"
    /\ LET c == calculate_position_size(ToFloat(Get(params).amount), eff_price,
                                        Get(params).leverage, Get(params).amount_type)
       IN  /\ qty' = c.qty
           /\ notional' = c.notional
           /\ required_margin' = c.required_margin
           /\ IF c.exc = "none"
              THEN /\ pc' = "balance"
                   /\ UNCHANGED << outcome, category, result >>
              ELSE Fail(c.exc, c.msg)
    /\ UNCHANGED << ticker_log, entry, params0, params, eff_price, balance_info, raw_order,
                    dispatched, counter0, calls, ncalls >>
    /\ UNCHANGED persistent
    /\ UNCHANGED outside_executor

\* line 202
CheckBalance ==
    /\ pc = "balance"
    /\ IF FetchesBalance(paper_trading_enabled, required_margin)
       THEN \E info \in Balances :
               /\ calls' = Append(calls, "get_balance")
               /\ balance_info' = Some(info)
               /\ IF BalanceVerdict(info, required_margin) = "none"
                  THEN /\ pc' = "dispatch"
                       /\ UNCHANGED << outcome, category, result >>
                  ELSE Fail(BalanceVerdict(info, required_margin), "balance check failed")
       ELSE /\ UNCHANGED << calls, balance_info >>
            /\ IF RatLeq(required_margin, Zero)
               THEN Fail("OrderValidationError", "required margin is zero or negative")
               ELSE /\ pc' = "dispatch"
                    /\ UNCHANGED << outcome, category, result >>
    /\ UNCHANGED << ticker_log, entry, params0, params, eff_price, qty, notional,
                    required_margin, raw_order, dispatched, counter0, ncalls >>
    /\ UNCHANGED persistent
    /\ UNCHANGED outside_executor

\* line 205: _execute_paper_order
execute_paper_order ==
    /\ pc = "dispatch"
    /\ UsePaper(paper_trading_enabled)
    /\ dispatched' = TRUE
    /\ \E ticker \in (IF Get(params).order_type = "limit"
                      THEN { CHOOSE t \in Tickers : t.kind = "raise" }
                      ELSE Tickers) :
          LET g == get_effective_price(Get(params), ticker)
              raw == PaperOrder(order_counter + 1, Get(params), qty, g.price)
          IN  /\ calls' = calls \o
                    (IF Get(params).order_type = "limit" THEN << >> ELSE << "get_ticker" >>)
                    \o (IF g.exc = "none" THEN << "paper_engine.execute_order" >> ELSE << >>)
              /\ ticker_log' = IF Get(params).order_type = "limit"
                               THEN ticker_log
                               ELSE Append(ticker_log, ticker)
              /\ IF g.exc = "none"
                 THEN /\ order_counter' = order_counter + 1
                      /\ raw_order' = Some(raw)
                      /\ result' = SuccessResult(raw.id, raw.status,
                                                 PyOrRat(raw.filled, raw.amount),
                                                 PyOrRat(raw.average, raw.price))
                      /\ pc' = "record"
                      /\ UNCHANGED << outcome, category >>
                 ELSE /\ Fail("OrderExecutionError", g.msg)
                      /\ UNCHANGED << order_counter, raw_order >>
    /\ UNCHANGED << entry, params0, params, eff_price, qty, notional,
                    required_margin, balance_info, counter0, ncalls >>
    /\ UNCHANGED << paper_trading_enabled, db_orders, settings >>
    /\ UNCHANGED outside_executor

\* line 207: _execute_real_order
execute_real_order ==
    /\ pc = "dispatch"
    /\ ~UsePaper(paper_trading_enabled)
    /\ dispatched' = TRUE
    /\ \E raw \in CreateAnswers :
          /\ calls' = Append(calls, "create_order")
          /\ IF raw.kind = "dict"
             THEN /\ raw_order' = Some(raw)
                  /\ result' = SuccessResult(PyOrId(raw.id, raw.orderId), raw.status,
                                             PyOrRat(raw.filled, raw.amount),
                                             PyOrRat(raw.average, raw.price))
                  /\ pc' = "record"
                  /\ UNCHANGED << outcome, category >>
             ELSE /\ Fail("OrderExecutionError", "create_order failed")
                  /\ UNCHANGED raw_order
    /\ UNCHANGED << ticker_log, entry, params0, params, eff_price, qty, notional,
                    required_margin, balance_info, counter0, ncalls >>
    /\ UNCHANGED persistent
    /\ UNCHANGED outside_executor

\* lines 210-216 with record_order
RecordOrder ==
    /\ pc = "record"
    /\ \E mode \in DbModes :
          /\ calls' = calls \o record_order_calls(mode)
          /\ db_orders' = IF mode = "insert_order_raises"
                          THEN db_orders
                          ELSE Append(db_orders, OrderRow(paper_trading_enabled, result))
          /\ IF record_order_exc(mode) = "none"
                \/ RecordGuardCatches(record_order_exc(mode))
             THEN /\ pc' = "done"
                  /\ outcome' = "returned"
                  /\ UNCHANGED << category, result >>
             ELSE Fail(record_order_exc(mode), "Unexpected error: record_order failed")
    /\ UNCHANGED << ticker_log, entry, params0, params, eff_price, qty, notional,
                    required_margin, balance_info, raw_order, dispatched,
                    counter0, ncalls >>
    /\ UNCHANGED << paper_trading_enabled, order_counter, settings >>
    /\ UNCHANGED outside_executor

\* the caller takes the result (or the exception); the executor is idle again
Return ==
    /\ pc = "done"
    /\ pc' = "idle"
    /\ entry' = "none"
    /\ params0' = None
    /\ params' = None
    /\ eff_price' = Zero
    /\ qty' = Zero
    /\ notional' = Zero
    /\ required_margin' = Zero
    /\ balance_info' = None
    /\ raw_order' = None
    /\ dispatched' = FALSE
    /\ counter0' = 0
    /\ calls' = << >>
    /\ ticker_log' = << >>
    /\ outcome' = "pending"
    /\ category' = "none"
    /\ result' = NoResult
    /\ UNCHANGED ncalls
    /\ UNCHANGED persistent
    /\ UNCHANGED outside_executor

Next ==
    \/ \E enabled \in BOOLEAN : set_paper_trading(enabled)
    \/ execute_market_order
    \/ execute_limit_order
    \/ ValidateOrder
    \/ ResolvePrice
    \/ CalculatePositionSize
    \/ CheckBalance
    \/ execute_paper_order
    \/ execute_real_order
    \/ RecordOrder
    \/ Return

Spec == Init /\ [][Next]_vars

\* the executor before any call, for the specifications of the other components
ExecutorIdle ==
    /\ paper_trading_enabled = FALSE
    /\ order_counter = 0
    /\ db_orders = << >>
    /\ settings = CHOOSE s \in RiskSettings : TRUE
    /\ ncalls = 0
    /\ pc = "idle"
    /\ IdleCall

----------------------------------------------------------------------------
(* Properties of the order-execution pipeline *)

Count(op) == Cardinality({ i \in 1..Len(calls) : calls[i] = op })

Has(op) == Count(op) > 0

Before(a, b) ==
    \A j \in 1..Len(calls) :
        calls[j] = b => \E i \in 1..(j - 1) : calls[i] = a

Done == pc = "done"

Returned == outcome = "returned"

NoPersistence == ~Has("insert_order") /\ ~Has("insert_system_log")

NoBackend == ~Has("create_order") /\ ~Has("paper_engine.execute_order")

GuardViolated == ~IsNone(params0) /\ ~TypeGuard(entry, Get(params0))

\* C1: every execute call returns an OrderResult and never raises to the
\* caller; a type-guard violation yields a non-success result.
C1_AlwaysReturnsResult ==
    Done => /\ Returned
            /\ (GuardViolated => ~result.success)

\* C2: once dispatch succeeded, a failing persistence step does not change
\* the outcome: the call returns success with the id, status, filled
\* quantity and average price of the dispatched order.
C2_PersistenceNeverFailsTrade ==
    (Done /\ ~IsNone(raw_order)) =>
        /\ Returned
        /\ result.success
        /\ result.order_id = PyOrId(Get(raw_order).id, Get(raw_order).orderId)
        /\ result.status = Get(raw_order).status

\* C3: an order whose leverage is outside [1, 125] is rejected: the call
\* returns a non-success result and no backend is invoked for it.
C3_BadLeverageRejected ==
    (Done /\ ~GuardViolated /\ ~validate_leverage(Get(params0).leverage)) =>
        /\ Returned /\ ~result.success
        /\ ~dispatched
        /\ NoBackend

ExceedsRiskLimit ==
    \/ /\ ~IsNone(settings.max_notional_usd)
       /\ RatLess(ToFloat(Get(settings.max_notional_usd)), notional)
    \/ /\ ~IsNone(settings.max_leverage)
       /\ ~IsNone(params)
       /\ Get(params).leverage > Get(settings.max_leverage)

\* C4: no order whose notional or leverage exceeds a configured risk limit
\* is dispatched, in paper mode as in real mode.
C4_RiskLimitNotBypassable ==
    ExceedsRiskLimit => ~dispatched /\ NoBackend

BalanceInsufficient ==
    /\ ~IsNone(balance_info)
    /\ \/ Get(balance_info).kind = "notdict"
       \/ /\ Get(balance_info).kind = "dict"
          /\ \/ IsNone(Get(balance_info).free)
             \/ RatLess(ToFloat(Get(Get(balance_info).free)), required_margin)

BalanceSufficient ==
    /\ ~IsNone(balance_info)
    /\ Get(balance_info).kind = "dict"
    /\ ~IsNone(Get(balance_info).free)
    /\ RatLeq(required_margin, ToFloat(Get(Get(balance_info).free)))

\* C5: in real mode create_order is invoked only after get_balance returned
\* a free balance >= required_margin in the same call; an insufficient,
\* missing or malformed balance gives a non-success result with nothing
\* dispatched and nothing persisted; free = required_margin passes.
C5_RealOrderNeedsBalance ==
    /\ (~paper_trading_enabled /\ Has("create_order")) =>
            /\ BalanceSufficient
            /\ Before("get_balance", "create_order")
    /\ (Done /\ BalanceInsufficient) =>
            /\ Returned /\ ~result.success
            /\ ~dispatched /\ NoBackend /\ NoPersistence
    /\ (Done /\ BalanceSufficient) => (dispatched /\ Has("create_order"))

C5_Witness ==
    /\ Done /\ ~paper_trading_enabled /\ result.success
    /\ Has("create_order")
    /\ ~IsNone(balance_info)
    /\ ToFloat(Get(Get(balance_info).free)) = required_margin

\* C6: in paper mode check_balance never calls get_balance, whatever the
\* positive required margin; a non-positive margin is a validation error
\* in either mode, raised before the mode is looked at.
C6_PaperSkipsBalance ==
    /\ paper_trading_enabled => (~Has("get_balance") /\ IsNone(balance_info))
    /\ (pc \in {"dispatch", "record"} \/ dispatched) => RatLess(Zero, required_margin)
    /\ (Done /\ RatLess(required_margin, Zero)) =>
            /\ Returned /\ ~result.success /\ category = "validation"
            /\ ~Has("get_balance") /\ ~dispatched

C6_Witness ==
    /\ Done /\ paper_trading_enabled /\ result.success
    /\ RatLeq(ToFloat(500), required_margin)
    /\ ~Has("get_balance")

ExactlyOneBackend ==
    IF paper_trading_enabled
    THEN Count("paper_engine.execute_order") = 1 /\ Count("create_order") = 0
    ELSE /\ Count("create_order") = 1
         /\ Count("paper_engine.execute_order") = 0
         /\ order_counter = counter0

\* C7: a call that reaches dispatch invokes exactly one backend, the one the
\* paper flag selects, and a backend exception becomes a non-success result.
C7_ExactlyOneBackend ==
    (Done /\ dispatched) => (ExactlyOneBackend /\ Returned)

\* C8: a type-guard violation returns a failure result and has no side
\* effect: no database call, no exchange call, paper counter and OrderParams
\* unchanged.
C8_GuardViolationNoEffect ==
    (Done /\ GuardViolated) =>
        /\ Returned /\ ~result.success
        /\ calls = << >>
        /\ order_counter = counter0
        /\ params = params0

NoPositivePrice(t) ==
    \/ t.kind = "notdict"
    \/ /\ t.kind = "dict"
       /\ \A o \in { t.last, t.price, t.close } : IsNone(o) \/ Get(o) <= 0

\* C9: a market order whose ticker has no usable price returns a non-success
\* result classified as an execution failure, with no balance fetch, no
\* backend call and no persistence; a limit order uses its own price and
\* never queries the ticker.
C9_NoPriceIsExecutionFailure ==
    /\ (Done /\ \E i \in 1..Len(ticker_log) : NoPositivePrice(ticker_log[i])) =>
            /\ Returned /\ ~result.success /\ category = "execution"
            /\ ~Has("get_balance") /\ NoBackend /\ NoPersistence
    /\ (~IsNone(params) /\ Get(params).order_type = "limit") =>
            /\ ~Has("get_ticker")
            /\ (pc \in {"size", "balance", "dispatch", "record"} =>
                    eff_price = ToFloat(Get(Get(params).price)))

C9_Witness ==
    /\ Done /\ ~paper_trading_enabled
    /\ Len(ticker_log) = 1
    /\ ticker_log[1].kind = "dict"
    /\ ticker_log[1].close = Some(-5)
    /\ category = "execution"

----------------------------------------------------------------------------
(* calculate_position_size as a function of its arguments *)

SizingAmounts == { Rat(-5, 1), Zero, Rat(1, 1), Rat(100, 1), Rat(1, 4) }

SizingPrices == { Rat(-1, 1), Zero, Rat(3, 1), Rat(49, 1), Rat(1, 2) }

SizingLeverages == { 0, 1, 3, 125 }

SizingAmountTypes == { "usd", "qty" }

SizingArgs ==
    [ amount : SizingAmounts, price : SizingPrices, leverage : SizingLeverages,
      amount_type : SizingAmountTypes ]

SizingInit ==
    /\ ExecutorIdle
    /\ ListenerIdle
    /\ ParserIdle
    /\ SmallIdle
    /\ sizing_args \in { Some(a) : a \in SizingArgs }
    /\ sizing_fwd = None
    /\ sizing_rev = None

\* the call itself
SizeForward ==
    /\ IsNone(sizing_fwd)
    /\ LET a == Get(sizing_args)
       IN  sizing_fwd' = Some(calculate_position_size(a.amount, a.price, a.leverage,
                                                      a.amount_type))
    /\ UNCHANGED << sizing_args, sizing_rev >>
    /\ UNCHANGED outside_sizing

\* the same position sized from the other side: the quantity the usd call
\* returned is sized as a qty amount, the notional of a qty call as a usd
\* amount, at the same price and leverage
SizeReverse ==
    /\ ~IsNone(sizing_fwd)
    /\ IsNone(sizing_rev)
    /\ Get(sizing_fwd).exc = "none"
    /\ LET a == Get(sizing_args)
           f == Get(sizing_fwd)
       IN  sizing_rev' =
               Some(IF a.amount_type = "usd"
                    THEN calculate_position_size(f.qty, a.price, a.leverage, "qty")
                    ELSE calculate_position_size(f.notional, a.price, a.leverage, "usd"))
    /\ UNCHANGED << sizing_args, sizing_fwd >>
    /\ UNCHANGED outside_sizing

SizingNext ==
    \/ SizeForward
    \/ SizeReverse

SizingSpec == SizingInit /\ [][SizingNext]_vars

\* the arguments of the claim's case: a positive price and a leverage of at least 1
SizingInDomain(a) == RatLess(Zero, a.price) /\ a.leverage >= 1

----------------------------------------------------------------------------
(* Python strings: a text is the sequence of its characters, each a string  *)
(* of one character; the Turkish letters are named (dotless_i, c_cedilla,   *)
(* u_diaeresis, s_cedilla, g_breve, o_diaeresis).                           *)

\* str.lower() on one character, for the capitals the inputs use
LowerChar(c) ==
    CASE c = "A" -> "a" [] c = "B" -> "b" [] c = "C" -> "c" [] c = "D" -> "d"
      [] c = "E" -> "e" [] c = "H" -> "h" [] c = "L" -> "l" [] c = "S" -> "s"
      [] c = "T" -> "t" [] c = "W" -> "w" [] OTHER -> c

\* str.lower()
lower(text) == [ i \in 1..Len(text) |-> LowerChar(text[i]) ]

IsSpace(c) == c = " "

\* str.strip()
RECURSIVE strip(_)
strip(text) ==
    IF Len(text) = 0 THEN text
    ELSE IF IsSpace(Head(text)) THEN strip(Tail(text))
    ELSE IF IsSpace(text[Len(text)]) THEN strip(SubSeq(text, 1, Len(text) - 1))
    ELSE text

\* text[i:i+len(k)] == k
OccursAt(k, text, i) ==
    /\ i >= 1
    /\ i + Len(k) - 1 <= Len(text)
    /\ SubSeq(text, i, i + Len(k) - 1) = k

\* k in text
Contains(k, text) == \E i \in 1..(Len(text) + 1) : OccursAt(k, text, i)

\* re.sub(re.escape(k), '', text, flags=re.IGNORECASE) for a non-empty k:
\* the non-overlapping occurrences of k, leftmost first, are removed
RECURSIVE re_sub_ignorecase(_, _)
re_sub_ignorecase(k, text) ==
    IF Len(text) = 0 THEN text
    ELSE IF OccursAt(k, lower(text), 1)
    THEN re_sub_ignorecase(k, SubSeq(text, Len(k) + 1, Len(text)))
    ELSE << Head(text) >> \o re_sub_ignorecase(k, Tail(text))

----------------------------------------------------------------------------
(* VoiceListener (core/voice_listener.py): the wake-word state machine      *)

\* ListenerSettings.wake_word, lowered (lines 381, 397)
wake_word == << "w", "h", "i", "s", "p", "e", "r" >>

\* ListenerSettings.wake_word_variants as __post_init__ builds it
wake_word_variants ==
    << << "w", "h", "i", "s", "p", "e", "r" >>,
       << "v", "i", "s", "p", "dotless_i", "r" >>,
       << "v", "i", "s", "p", "e", "r" >>,
       << "w", "i", "s", "p", "e", "r" >>,
       << "v", "dotless_i", "s", "p", "e", "r" >>,
       << "w", "h", "i", "s", "p", "e", "r" >>,
       << "w", "i", "s", "p", "dotless_i", "r" >>,
       << "h", "v", "i", "s", "p", "e", "r" >> >>

\* only the wake word itself is looked for
check_wake_word_main_only(text) == Contains(wake_word, lower(text))

\* _check_wake_word
check_wake_word(text) ==
    \/ Contains(wake_word, lower(text))
    \/ \E i \in 1..Len(wake_word_variants) : Contains(wake_word_variants[i], lower(text))

\* the loop of _remove_wake_word over the variants: the test is made on the
\* original text, the removal on what the earlier removals left
RECURSIVE remove_variants(_, _, _)
remove_variants(i, text_lower, stripped) ==
    IF i > Len(wake_word_variants) THEN stripped
    ELSE remove_variants(i + 1, text_lower,
                         IF Contains(wake_word_variants[i], text_lower)
                         THEN re_sub_ignorecase(wake_word_variants[i], stripped)
                         ELSE stripped)

\* _remove_wake_word
remove_wake_word(text) ==
    LET text_lower == lower(text)
        stripped == IF Contains(wake_word, text_lower)
                  THEN re_sub_ignorecase(wake_word, text)
                  ELSE text
    IN  strip(remove_variants(1, text_lower, stripped))

\* what whisper_engine.transcribe_ndarray can return for a chunk
Transcripts ==
    { << >>,
      << "h", "e", "l", "l", "o" >>,
      << "W", "h", "i", "s", "p", "e", "r" >>,
      << "w", "h", "i", "s", "p", "e", "r", " ", "b", "u", "y", " ", "b", "i", "t", "c", "o", "i", "n" >>,
      << "h", "v", "i", "s", "p", "e", "r" >>,
      << "b", "u", "y", " ", "b", "i", "t", "c", "o", "i", "n" >>,
      << " ", " " >> }

\* ListenerSettings.sensitivity values of the runs
Sensitivities == { 5, 10 }

\* what _calculate_audio_level can return for a chunk (0..100)
Levels == { 0, 10, 11 }

MaxChunks == 4

MaxRequests == 3

\* the threshold one too low: 15 - sensitivity
Threshold_one_lower == IF 15 - sensitivity > 1 THEN 15 - sensitivity ELSE 1

\* lines 255 and 322
Threshold == IF 16 - sensitivity > 1 THEN 16 - sensitivity ELSE 1

\* sd.rec / sd.wait: raises, or returns a chunk of some loudness
CaptureResultsOf(levels) ==
    { [ exc |-> TRUE, level |-> 0 ] } \cup { [ exc |-> FALSE, level |-> l ] : l \in levels }

CaptureResults == CaptureResultsOf(Levels)

\* whisper_engine.transcribe_ndarray: raises, or returns a text
TranscribeResults ==
    { [ exc |-> TRUE, text |-> << >> ] } \cup { [ exc |-> FALSE, text |-> t ] : t \in Transcripts }

\* one emitted signal; t is, for a command, the time in the active window at
\* which the audio of the command ended
Signal(name, arg, t) == [ signal |-> name, arg |-> arg, t |-> t ]

\* the signals of _set_mode(m): emitted only when the mode changes (line 370)
set_mode_signals(m) ==
    IF listener_mode # m THEN << Signal("mode_changed", << m >>, 0) >> ELSE << >>

AddSeconds(e, d) == IF e + d > ElapsedCap THEN ElapsedCap ELSE e + d

ListenerInit ==
    /\ ExecutorIdle
    /\ SizingIdle
    /\ ParserIdle
    /\ SmallIdle
    /\ has_sd \in BOOLEAN
    /\ sensitivity \in Sensitivities
    /\ ListenerConstructed

\* the chunks of a scripted run: a silent chunk, then two transcripts
TranscriptScript ==
    << None,
       Some(<< "h", "e", "l", "l", "o" >>),
       Some(<< "w", "h", "i", "s", "p", "e", "r", " ", "b", "u", "y", " ",
               "b", "i", "t", "c", "o", "i", "n" >>) >>

\* the cycle that just ended is the next one of the script
FollowsScript(rec) ==
    /\ script_pos >= 0
    /\ script_pos < Len(TranscriptScript)
    /\ rec.kind = "passive"
    /\ rec.what = IF IsNone(TranscriptScript[script_pos + 1]) THEN "silence" ELSE "transcript"
    /\ rec.text = TranscriptScript[script_pos + 1]

\* a step of the listener thread: it goes to position next_pc, calls
\* _set_mode(new_mode) after emitting the signals emits, and its cycle record
\* becomes cyc; a cycle that ends is compared with the script
WorkerStep(next_pc, new_mode, emits, cyc) ==
    LET all == emits \o set_mode_signals(new_mode)
        rec == [ cyc EXCEPT !.emitted = @ \o all,
                            !.mode_after = new_mode,
                            !.after_stop = IF cyc.stop_in_flight # "none"
                                           THEN @ \o all ELSE @ ]
    IN  /\ worker' = next_pc
        /\ listener_mode' = new_mode
        /\ events' = events \o all
        /\ cycle' = rec
        /\ script_pos' = IF next_pc # "loop" THEN script_pos
                         ELSE IF FollowsScript(rec) THEN script_pos + 1 ELSE -1

Ends(what) == [ cycle EXCEPT !.what = what ]

\* lines 143-158
start_passive_listening ==
    /\ nrequests < MaxRequests
    /\ nrequests' = nrequests + 1
    /\ IF ~has_sd
       THEN /\ events' = Append(events, Signal("error_occurred", << >>, 0))
            /\ UNCHANGED << listener_mode, stop_event, worker, cycle >>
       ELSE /\ stop_event' = FALSE
            /\ listener_mode' = "passive"
            /\ events' = events \o set_mode_signals("passive")
            /\ worker' = IF worker = "not_running" THEN "loop" ELSE worker
            /\ cycle' = [ cycle EXCEPT !.stop_in_flight = "none" ]
    /\ UNCHANGED << has_sd, sensitivity, elapsed, capture_from, script_pos, nchunks >>
    /\ UNCHANGED outside_listener

\* lines 162-163 and 190-191: the stop flag is set, then the mode
StopRequest ==
    /\ nrequests < MaxRequests
    /\ nrequests' = nrequests + 1
    /\ stop_event' = TRUE
    /\ listener_mode' = "idle"
    /\ events' = events \o set_mode_signals("idle")
    /\ cycle' = IF cycle.what = "running" /\ cycle.stop_in_flight = "none"
                   /\ worker \in { "passive_capture", "active_capture" }
                THEN [ cycle EXCEPT !.stop_in_flight = "capture" ]
                ELSE IF cycle.what = "running" /\ cycle.stop_in_flight = "none"
                        /\ worker \in { "passive_transcribe", "active_transcribe" }
                THEN [ cycle EXCEPT !.stop_in_flight = "transcription" ]
                ELSE cycle
    /\ UNCHANGED << has_sd, sensitivity, worker, elapsed, capture_from, script_pos, nchunks >>
    /\ UNCHANGED outside_listener

\* lines 160-164
stop_listening == StopRequest

\* lines 188-192; wait(2000) gives up after two seconds
stop == StopRequest

\* run(), lines 202-210: the loop test and the dispatch on the mode
run ==
    /\ worker = "loop"
    /\ IF stop_event
       THEN /\ worker' = "exiting"
            /\ UNCHANGED << listener_mode, events, script_pos, nchunks, cycle >>
       ELSE IF listener_mode = "passive"
       THEN /\ nchunks < MaxChunks
            /\ nchunks' = nchunks + 1
            /\ worker' = "passive_capture"
            /\ cycle' = NewCycle("passive", listener_mode)
            /\ UNCHANGED << listener_mode, events, script_pos >>
       ELSE IF listener_mode = "active"
       THEN /\ worker' = "active_enter"
            /\ cycle' = NewCycle("active", listener_mode)
            /\ UNCHANGED << listener_mode, events, script_pos, nchunks >>
       ELSE UNCHANGED << worker, listener_mode, events, script_pos, nchunks, cycle >>
    /\ UNCHANGED << has_sd, sensitivity, stop_event, elapsed, capture_from, nrequests >>
    /\ UNCHANGED outside_listener

\* run() returns (line 218): isRunning() becomes false
run_finished ==
    /\ worker = "exiting"
    /\ worker' = "not_running"
    /\ UNCHANGED << has_sd, sensitivity, listener_mode, stop_event, elapsed, capture_from, events,
                    script_pos, nchunks, nrequests, cycle >>
    /\ UNCHANGED outside_listener

\* _passive_loop, lines 233-259: the capture returns.  The time that passes in
\* a passive cycle is not counted: elapsed is read next after activate()
\* has set it to 0.
PassiveCapture(results) ==
    /\ worker = "passive_capture"
    /\ \E r \in results :
          IF r.exc
          THEN WorkerStep("loop", listener_mode, << >>, Ends("capture_error"))
          ELSE IF stop_event
          THEN WorkerStep("loop", listener_mode, << >>, Ends("stopped"))
          ELSE IF r.level < Threshold
          THEN WorkerStep("loop", listener_mode, << >>, [ Ends("silence") EXCEPT !.level = r.level ])
          ELSE WorkerStep("passive_transcribe", listener_mode, << >>,
                          [ cycle EXCEPT !.level = r.level ])
    /\ UNCHANGED << has_sd, sensitivity, stop_event, elapsed, capture_from, nchunks,
                    nrequests >>
    /\ UNCHANGED outside_listener

passive_loop_capture == PassiveCapture(CaptureResults)

\* _passive_loop, lines 262-277: the transcription returns
passive_loop_transcribe ==
    /\ worker = "passive_transcribe"
    /\ \E r \in TranscribeResults :
          IF r.exc
          THEN /\ WorkerStep("loop", listener_mode, << >>, Ends("transcription_error"))
               /\ UNCHANGED elapsed
          ELSE IF Len(r.text) > 0 /\ check_wake_word(strip(lower(r.text)))
          THEN /\ WorkerStep("loop", "active",
                             << Signal("wake_word_detected", << >>, 0) >>,
                             [ Ends("transcript") EXCEPT !.text = Some(r.text) ])
               /\ elapsed' = 0
          ELSE /\ WorkerStep("loop", listener_mode, << >>,
                             [ Ends("transcript") EXCEPT !.text = Some(r.text) ])
               /\ UNCHANGED elapsed
    /\ UNCHANGED << has_sd, sensitivity, stop_event, capture_from, nchunks, nrequests >>
    /\ UNCHANGED outside_listener

\* _active_loop, lines 285-299: the timeout test, deactivate(), or the start
\* of a capture of active_chunk_duration seconds
active_loop_enter ==
    /\ worker = "active_enter"
    /\ IF elapsed >= active_mode_duration
       THEN /\ WorkerStep("loop", IF listener_mode = "active" THEN "passive" ELSE listener_mode, << >>,
                          Ends("timeout"))
            /\ UNCHANGED << capture_from, nchunks >>
       ELSE /\ nchunks < MaxChunks
            /\ nchunks' = nchunks + 1
            /\ capture_from' = elapsed
            /\ WorkerStep("active_capture", "active", << >>, cycle)
    /\ UNCHANGED << has_sd, sensitivity, stop_event, elapsed, nrequests >>
    /\ UNCHANGED outside_listener

\* _active_loop, lines 303-330 and 359-361: the capture returns
active_loop_capture ==
    /\ worker = "active_capture"
    /\ elapsed' = AddSeconds(elapsed, active_chunk_duration)
    /\ \E r \in CaptureResults :
          IF r.exc
          THEN WorkerStep("loop", "active", << >>, Ends("capture_error"))
          ELSE IF stop_event
          THEN WorkerStep("loop", listener_mode, << >>, Ends("stopped"))
          ELSE IF r.level < Threshold
          THEN WorkerStep("loop", listener_mode, << >>, [ Ends("silence") EXCEPT !.level = r.level ])
          ELSE WorkerStep("active_transcribe", "processing", << >>,
                          [ cycle EXCEPT !.level = r.level ])
    /\ UNCHANGED << has_sd, sensitivity, stop_event, capture_from, nchunks, nrequests >>
    /\ UNCHANGED outside_listener

\* _active_loop staying in active mode after it has emitted a command
active_loop_transcribe_stays_active ==
    /\ worker = "active_transcribe"
    /\ \E d \in TranscribeSeconds : elapsed' = AddSeconds(elapsed, d)
    /\ \E r \in TranscribeResults :
          IF r.exc
          THEN WorkerStep("loop", "active", << >>, Ends("transcription_error"))
          ELSE LET command == remove_wake_word(strip(r.text))
                   cyc == [ Ends("transcript") EXCEPT !.text = Some(r.text) ]
               IN  IF Len(r.text) > 0 /\ Len(strip(r.text)) > 0 /\ Len(command) > 0
                   THEN WorkerStep("loop", "active",
                                   << Signal("command_received", command,
                                             capture_from + active_chunk_duration) >>,
                                   cyc)
                   ELSE WorkerStep("loop", "active", << >>, cyc)
    /\ UNCHANGED << has_sd, sensitivity, stop_event, capture_from, nchunks, nrequests >>
    /\ UNCHANGED outside_listener

\* _active_loop, lines 332-361: the transcription returns
active_loop_transcribe ==
    /\ worker = "active_transcribe"
    /\ \E d \in TranscribeSeconds : elapsed' = AddSeconds(elapsed, d)
    /\ \E r \in TranscribeResults :
          IF r.exc
          THEN WorkerStep("loop", "active", << >>, Ends("transcription_error"))
          ELSE LET command == remove_wake_word(strip(r.text))
                   cyc == [ Ends("transcript") EXCEPT !.text = Some(r.text) ]
               IN  IF Len(r.text) > 0 /\ Len(strip(r.text)) > 0 /\ Len(command) > 0
                   THEN WorkerStep("loop", "passive",
                                   << Signal("command_received", command,
                                             capture_from + active_chunk_duration) >>,
                                   cyc)
                   ELSE WorkerStep("loop", "active", << >>, cyc)
    /\ UNCHANGED << has_sd, sensitivity, stop_event, capture_from, nchunks, nrequests >>
    /\ UNCHANGED outside_listener

ListenerNext ==
    \/ start_passive_listening
    \/ stop_listening
    \/ stop
    \/ run
    \/ run_finished
    \/ passive_loop_capture
    \/ passive_loop_transcribe
    \/ active_loop_enter
    \/ active_loop_capture
    \/ active_loop_transcribe

ListenerSpec == ListenerInit /\ [][ListenerNext]_vars

\* every sensitivity of the settings dialog and every level
\* _calculate_audio_level can return (line 425)
AllSensitivities == 1..10

AllLevels == 0..100

ThresholdInit ==
    /\ ExecutorIdle
    /\ SizingIdle
    /\ ParserIdle
    /\ SmallIdle
    /\ has_sd = TRUE
    /\ sensitivity \in AllSensitivities
    /\ ListenerConstructed

\* _passive_loop on a chunk of any level
passive_loop_capture_any_level == PassiveCapture(CaptureResultsOf(AllLevels))

\* the passive side of a listener that is started and not stopped: the loop
\* of run() and the two halves of _passive_loop
ThresholdNext ==
    \/ start_passive_listening
    \/ run
    \/ passive_loop_capture_any_level
    \/ passive_loop_transcribe

ThresholdSpec == ThresholdInit /\ [][ThresholdNext]_vars

----------------------------------------------------------------------------
(* Properties of the listener *)

\* the signals of one name in a sequence of signals
Named(sigs, name) == SelectSeq(sigs, LAMBDA e : e.signal = name)

\* the iteration of the given loop has ended and the thread is back at the loop test
CycleEnded(kind) == worker = "loop" /\ cycle.kind = kind /\ cycle.what # "running"

\* C12: after stop_listening() or stop() the mode is idle and stays idle until
\* start_passive_listening() is called again; the stop flag is set exactly
\* from a stop request to the next start request.
C12_StopStaysIdle == stop_event => listener_mode = "idle"

\* the cycle that found the active window elapsed leaves the listener passive
\* and emits neither a command nor an error
TimeoutReturnsToPassive ==
    (CycleEnded("active") /\ cycle.what = "timeout") =>
        /\ ~stop_event => listener_mode = "passive"
        /\ Named(cycle.emitted, "command_received") = << >>
        /\ Named(cycle.emitted, "error_occurred") = << >>

\* every command comes from audio that ended inside the active window
CommandsInsideWindow ==
    \A i \in DOMAIN events :
        events[i].signal = "command_received" => events[i].t <= active_mode_duration

\* C13: when the active duration passes without a command, the listener goes
\* back to passive, no command_received is emitted for that window (none for
\* audio that ended after the window), and no error_occurred is emitted.
C13_ActiveTimeout == TimeoutReturnsToPassive /\ CommandsInsideWindow

\* the wake word or one of its variants is a case-insensitive substring
ContainsWakeWord(text) ==
    \E i \in DOMAIN wake_word_variants : Contains(wake_word_variants[i], lower(text))

\* the chunk of the cycle was loud enough and its transcript has the wake word
Woke ==
    /\ cycle.what = "transcript"
    /\ cycle.level >= 16 - sensitivity
    /\ ContainsWakeWord(Get(cycle.text))

\* C14: a passive cycle makes the mode active exactly when its chunk was loud
\* enough to be transcribed and the transcript contains the wake word or a
\* variant; that cycle emits exactly one wake_word_detected, every other
\* passive cycle emits none and changes no mode.
C14_WakeIffHeard ==
    CycleEnded("passive") =>
        IF Woke
        THEN /\ cycle.mode_after = "active"
             /\ Len(Named(cycle.emitted, "wake_word_detected")) = 1
             /\ Named(cycle.emitted, "mode_changed")
                    = << Signal("mode_changed", << "active" >>, 0) >>
        ELSE cycle.emitted = << >>

\* a chunk that is loud only at the higher sensitivity, transcribed with a
\* capital letter, woke the listener
C14_Witness ==
    /\ CycleEnded("passive")
    /\ Woke
    /\ cycle.level = 10
    /\ cycle.text = Some(<< "W", "h", "i", "s", "p", "e", "r" >>)
    /\ listener_mode = "active"

\* C15: after the cycles silence, "hello", "whisper buy bitcoin" the listener
\* is active, reached active at the third cycle, and has emitted
\* wake_word_detected and then command_received("buy bitcoin").
C15_ScriptedWake ==
    (script_pos = Len(TranscriptScript) /\ ~stop_event) =>
        /\ cycle.mode_after = "active"
        /\ Len(Named(events, "wake_word_detected")) = 1
        /\ \E i, j \in DOMAIN events :
              /\ i < j
              /\ events[i].signal = "wake_word_detected"
              /\ events[j].signal = "command_received"
              /\ events[j].arg = << "b", "u", "y", " ", "b", "i", "t", "c", "o", "i", "n" >>

\* the text with every occurrence of the wake word and of its variants taken
\* out, the longest variant first where several begin at the same place
RECURSIVE WithoutWakeWords(_)
WithoutWakeWords(text) ==
    IF Len(text) = 0 THEN text
    ELSE LET here == { i \in DOMAIN wake_word_variants :
                          OccursAt(wake_word_variants[i], lower(text), 1) }
         IN  IF here = { }
             THEN << Head(text) >> \o WithoutWakeWords(Tail(text))
             ELSE LET k == CHOOSE i \in here :
                              \A j \in here : Len(wake_word_variants[j])
                                                  <= Len(wake_word_variants[i])
                  IN  WithoutWakeWords(SubSeq(text, Len(wake_word_variants[k]) + 1,
                                              Len(text)))

\* C16: an active cycle that transcribed its chunk emits the transcript with
\* the wake word and all variants stripped as the command and goes to passive
\* when that text is not empty, and emits nothing and goes back to active
\* when it is empty; at the end of a cycle the mode is never processing.
C16_ActiveCycle ==
    /\ worker = "loop" => listener_mode # "processing"
    /\ (CycleEnded("active") /\ cycle.what = "transcript") =>
           LET command == strip(WithoutWakeWords(Get(cycle.text)))
           IN  IF Len(command) > 0
               THEN /\ Len(Named(cycle.emitted, "command_received")) = 1
                    /\ Named(cycle.emitted, "command_received")[1].arg = command
                    /\ cycle.mode_after = "passive"
               ELSE /\ Named(cycle.emitted, "command_received") = << >>
                    /\ cycle.mode_after = "active"

\* C17: a cycle in which the capture or the transcription raised ends with
\* an error_occurred signal, the thread back at the loop test, and the mode
\* the cycle began in.
C17_ExceptionReported ==
    (worker = "loop" /\ cycle.what \in { "capture_error", "transcription_error" }) =>
        /\ Len(Named(cycle.emitted, "error_occurred")) = 1
        /\ cycle.kind = "passive" => Named(cycle.emitted, "mode_changed") = << >>
        /\ cycle.kind = "active" => cycle.mode_after = "active"

\* C18: when a stop request arrives while the capture or the transcription of
\* a cycle is in flight, the thread emits no signal and changes no mode in
\* the rest of that cycle.
C18_StopPolledAfterCalls ==
    cycle.stop_in_flight # "none" => cycle.after_stop = << >>

\* C31: the chunk an active cycle captures is no longer than the time left in
\* the active window, so every capture ends no later than the end of the
\* window and every command comes from audio captured inside the window.
C31_ChunkWithinWindow ==
    /\ worker = "active_capture" =>
          capture_from + active_chunk_duration <= active_mode_duration
    /\ \A i \in DOMAIN events :
          events[i].signal = "command_received" => events[i].t <= active_mode_duration

----------------------------------------------------------------------------
(* CommandParser (core/command_parser.py)                                    *)

CRYPTO_ALIASES ==
    <<
       [ alias |-> << "b", "i", "t", "c", "o", "i", "n" >>, symbol |-> "BTCUSDT" ],
       [ alias |-> << "b", "t", "c" >>, symbol |-> "BTCUSDT" ],
       [ alias |-> << "b", "i", "t", "k", "o", "y", "n" >>, symbol |-> "BTCUSDT" ],
       [ alias |-> << "b", "i", "t" >>, symbol |-> "BTCUSDT" ],
       [ alias |-> << "e", "t", "h", "e", "r", "e", "u", "m" >>, symbol |-> "ETHUSDT" ],
       [ alias |-> << "e", "t", "h" >>, symbol |-> "ETHUSDT" ],
       [ alias |-> << "e", "t", "e", "r" >>, symbol |-> "ETHUSDT" ],
       [ alias |-> << "e", "t", "e", "r", "i", "u", "m" >>, symbol |-> "ETHUSDT" ],
       [ alias |-> << "b", "n", "b" >>, symbol |-> "BNBUSDT" ],
       [ alias |-> << "b", "i", "n", "a", "n", "c", "e" >>, symbol |-> "BNBUSDT" ],
       [ alias |-> << "s", "o", "l", "a", "n", "a" >>, symbol |-> "SOLUSDT" ],
       [ alias |-> << "s", "o", "l" >>, symbol |-> "SOLUSDT" ],
       [ alias |-> << "x", "r", "p" >>, symbol |-> "XRPUSDT" ],
       [ alias |-> << "r", "i", "p", "p", "l", "e" >>, symbol |-> "XRPUSDT" ],
       [ alias |-> << "d", "o", "g", "e" >>, symbol |-> "DOGEUSDT" ],
       [ alias |-> << "d", "o", "g", "e", "c", "o", "i", "n" >>, symbol |-> "DOGEUSDT" ],
       [ alias |-> << "d", "o", "j" >>, symbol |-> "DOGEUSDT" ],
       [ alias |-> << "a", "d", "a" >>, symbol |-> "ADAUSDT" ],
       [ alias |-> << "c", "a", "r", "d", "a", "n", "o" >>, symbol |-> "ADAUSDT" ],
       [ alias |-> << "d", "o", "t" >>, symbol |-> "DOTUSDT" ],
       [ alias |-> << "p", "o", "l", "k", "a", "d", "o", "t" >>, symbol |-> "DOTUSDT" ],
       [ alias |-> << "a", "v", "a", "x" >>, symbol |-> "AVAXUSDT" ],
       [ alias |-> << "a", "v", "a", "l", "a", "n", "c", "h", "e" >>, symbol |-> "AVAXUSDT" ],
       [ alias |-> << "l", "i", "n", "k" >>, symbol |-> "LINKUSDT" ],
       [ alias |-> << "c", "h", "a", "i", "n", "l", "i", "n", "k" >>, symbol |-> "LINKUSDT" ],
       [ alias |-> << "l", "t", "c" >>, symbol |-> "LTCUSDT" ],
       [ alias |-> << "l", "i", "t", "e", "c", "o", "i", "n" >>, symbol |-> "LTCUSDT" ],
       [ alias |-> << "m", "a", "t", "i", "c" >>, symbol |-> "MATICUSDT" ],
       [ alias |-> << "p", "o", "l", "y", "g", "o", "n" >>, symbol |-> "MATICUSDT" ] >>

BUY_KEYWORDS ==
    <<
       << "a", "l" >>, << "s", "a", "t", "dotless_i", "n", " ", "a", "l" >>,
       << "s", "a", "t", "dotless_i", "n", "a", "l" >>, << "b", "u", "y" >>,
       << "l", "o", "n", "g" >>, << "u", "z", "u", "n" >>, << "a", "c_cedilla" >>,
       << "p", "o", "z", "i", "s", "y", "o", "n", " ", "a", "c_cedilla" >>,
       << "g", "i", "r" >>, << "a", "l", "dotless_i", "m" >>,
       << "a", "l", "a", "l", "dotless_i", "m" >> >>

SELL_KEYWORDS ==
    <<
       << "s", "a", "t" >>, << "s", "e", "l", "l" >>, << "s", "h", "o", "r", "t" >>,
       << "k", "dotless_i", "s", "a" >>,
       << "a", "c_cedilla", "dotless_i", "g_breve", "a", " ", "s", "a", "t" >>,
       << "s", "a", "t", "dotless_i", "s_cedilla" >>,
       << "s", "a", "t", "a", "l", "dotless_i", "m" >> >>

CLOSE_KEYWORDS ==
    <<
       << "k", "a", "p", "a", "t" >>,
       << "p", "o", "z", "i", "s", "y", "o", "n", " ", "k", "a", "p", "a", "t" >>,
       << "c", "l", "o", "s", "e" >>, << "c_cedilla", "dotless_i", "k" >>,
       << "c_cedilla", "dotless_i", "k", "dotless_i", "s_cedilla" >>,
       << "p", "o", "z", "i", "s", "y", "o", "n", "u", " ", "k", "a", "p", "a", "t" >>,
       << "k", "a", "p", "a", "t", "a", "l", "dotless_i", "m" >>,
       << "k", "a", "p", "a", "t", " ", "p", "o", "z", "i", "s", "y", "o", "n", "u" >> >>

CANCEL_KEYWORDS ==
    <<
       << "i", "p", "t", "a", "l" >>, << "i", "p", "t", "a", "l", " ", "e", "t" >>,
       << "c", "a", "n", "c", "e", "l" >>, << "v", "a", "z", "g", "e", "c_cedilla" >>,
       << "s", "i", "l" >>, << "e", "m", "r", "i", " ", "i", "p", "t", "a", "l" >>,
       << "e", "m", "r", "i", " ", "i", "p", "t", "a", "l", " ", "e", "t" >>,
       << "o", "r", "d", "e", "r", " ", "i", "p", "t", "a", "l" >> >>

STATUS_KEYWORDS ==
    <<
       << "d", "u", "r", "u", "m" >>, << "s", "t", "a", "t", "u", "s" >>,
       << "p", "o", "z", "i", "s", "y", "o", "n" >>,
       << "p", "o", "z", "i", "s", "y", "o", "n", "l", "a", "r" >>,
       << "a", "c_cedilla", "dotless_i", "k", " ", "p", "o", "z", "i", "s", "y", "o", "n" >>,
       << "n", "e", " ", "v", "a", "r" >>,
       << "g", "o_diaeresis", "s", "t", "e", "r" >> >>

BALANCE_KEYWORDS ==
    <<
       << "b", "a", "k", "i", "y", "e" >>, << "b", "a", "l", "a", "n", "c", "e" >>,
       << "p", "a", "r", "a" >>, << "h", "e", "s", "a", "p" >>,
       << "c", "u_diaeresis", "z", "d", "a", "n" >>,
       << "n", "e", " ", "k", "a", "d", "a", "r" >>,
       << "s", "e", "r", "m", "a", "y", "e" >> >>

NUMBER_WORDS ==
    <<
       [ word |-> << "b", "i", "r" >>, digits |-> << "1" >> ],
       [ word |-> << "i", "k", "i" >>, digits |-> << "2" >> ],
       [ word |-> << "u_diaeresis", "c_cedilla" >>, digits |-> << "3" >> ],
       [ word |-> << "d", "o_diaeresis", "r", "t" >>, digits |-> << "4" >> ],
       [ word |-> << "b", "e", "s_cedilla" >>, digits |-> << "5" >> ],
       [ word |-> << "a", "l", "t", "dotless_i" >>, digits |-> << "6" >> ],
       [ word |-> << "y", "e", "d", "i" >>, digits |-> << "7" >> ],
       [ word |-> << "s", "e", "k", "i", "z" >>, digits |-> << "8" >> ],
       [ word |-> << "d", "o", "k", "u", "z" >>, digits |-> << "9" >> ],
       [ word |-> << "o", "n" >>, digits |-> << "1", "0" >> ],
       [ word |-> << "y", "i", "r", "m", "i" >>, digits |-> << "2", "0" >> ],
       [ word |-> << "o", "t", "u", "z" >>, digits |-> << "3", "0" >> ],
       [ word |-> << "k", "dotless_i", "r", "k" >>, digits |-> << "4", "0" >> ],
       [ word |-> << "e", "l", "l", "i" >>, digits |-> << "5", "0" >> ],
       [ word |-> << "a", "l", "t", "m", "dotless_i", "s_cedilla" >>, digits |-> << "6", "0" >> ],
       [ word |-> << "y", "e", "t", "m", "i", "s_cedilla" >>, digits |-> << "7", "0" >> ],
       [ word |-> << "s", "e", "k", "s", "e", "n" >>, digits |-> << "8", "0" >> ],
       [ word |-> << "d", "o", "k", "s", "a", "n" >>, digits |-> << "9", "0" >> ],
       [ word |-> << "y", "u_diaeresis", "z" >>, digits |-> << "1", "0", "0" >> ],
       [ word |-> << "b", "i", "n" >>, digits |-> << "1", "0", "0", "0" >> ] >>

\* the unit alternatives with the lira pattern before the dollar pattern
AMOUNT_PATTERN_UNITS_lira_first ==
    << { << "t", "l" >>, << "l", "i", "r", "a" >>, << "t", "u_diaeresis", "r", "k", " ", "l", "i", "r", "a", "s", "dotless_i" >> },
       { << "d", "o", "l", "a", "r" >>, << "d", "o", "l", "l", "a", "r" >>, << "$" >>, << "u", "s", "d" >>, << "u", "s", "d", "t" >> },
       { << "e", "u", "r", "o" >>, << "euro_sign" >>, << "e", "u", "r" >> },
       { << "k" >>, << "b", "i", "n" >> } >>

\* the unit alternatives of AMOUNT_PATTERNS[0..3] (lines 140-143)
AMOUNT_PATTERN_UNITS ==
    << { << "d", "o", "l", "a", "r" >>, << "d", "o", "l", "l", "a", "r" >>, << "$" >>, << "u", "s", "d" >>, << "u", "s", "d", "t" >> },
       { << "t", "l" >>, << "l", "i", "r", "a" >>, << "t", "u_diaeresis", "r", "k", " ", "l", "i", "r", "a", "s", "dotless_i" >> },
       { << "e", "u", "r", "o" >>, << "euro_sign" >>, << "e", "u", "r" >> },
       { << "k" >>, << "b", "i", "n" >> } >>

default_symbol == "BTCUSDT"

\* ' '.join(text.split()) on a text: no leading, trailing or repeated space
RECURSIVE collapse_spaces(_)
collapse_spaces(text) ==
    IF Len(text) = 0 THEN text
    ELSE IF IsSpace(Head(text)) /\ (Len(text) = 1 \/ IsSpace(text[2]))
    THEN collapse_spaces(Tail(text))
    ELSE << Head(text) >> \o collapse_spaces(Tail(text))

\* _normalize_text: lower, strip, the replacements of lines 207-216 (dotless i
\* becomes i; the curly quotes are not among the characters of the inputs),
\* whitespace collapsed
normalize_text(text) ==
    LET lowered == strip(lower(text))
        replaced == [ i \in 1..Len(lowered) |->
                        IF lowered[i] = "dotless_i" THEN "i" ELSE lowered[i] ]
    IN  strip(collapse_spaces(replaced))

\* any(keyword in text for keyword in keywords)
AnyKeyword(keywords, text) == \E i \in DOMAIN keywords : Contains(keywords[i], text)

\* _detect_action with the buy keywords looked for before the close keywords
detect_action_buy_first(text) ==
    LET text_lower == lower(text)
    IN  IF AnyKeyword(BUY_KEYWORDS, text_lower) THEN "buy"
        ELSE IF AnyKeyword(CLOSE_KEYWORDS, text_lower) THEN "close"
        ELSE IF AnyKeyword(CANCEL_KEYWORDS, text_lower) THEN "cancel"
        ELSE IF AnyKeyword(SELL_KEYWORDS, text_lower) THEN "sell"
        ELSE IF AnyKeyword(STATUS_KEYWORDS, text_lower) THEN "status"
        ELSE IF AnyKeyword(BALANCE_KEYWORDS, text_lower) THEN "balance"
        ELSE "none"

\* _detect_action; "none" is None
detect_action(text) ==
    LET text_lower == lower(text)
    IN  IF AnyKeyword(CLOSE_KEYWORDS, text_lower) THEN "close"
        ELSE IF AnyKeyword(CANCEL_KEYWORDS, text_lower) THEN "cancel"
        ELSE IF AnyKeyword(BUY_KEYWORDS, text_lower) THEN "buy"
        ELSE IF AnyKeyword(SELL_KEYWORDS, text_lower) THEN "sell"
        ELSE IF AnyKeyword(STATUS_KEYWORDS, text_lower) THEN "status"
        ELSE IF AnyKeyword(BALANCE_KEYWORDS, text_lower) THEN "balance"
        ELSE "none"

\* \w of the regular expressions, on the characters of the inputs
IsWordChar(c) == c \notin { " ", "$", "euro_sign" }

\* \b at the gap before position i of the text
WordBoundary(text, i) ==
    LET before == i > 1 /\ IsWordChar(text[i - 1])
        after == i <= Len(text) /\ IsWordChar(text[i])
    IN  before # after

\* re.search(r'\b' + re.escape(word) + r'\b', text)
SearchWord(word, text) ==
    \E i \in 1..Len(text) :
        /\ OccursAt(word, text, i)
        /\ WordBoundary(text, i)
        /\ WordBoundary(text, i + Len(word))

\* _extract_symbol: the first alias, in the order of the table, found as a word
extract_symbol(text) ==
    LET text_lower == lower(text)
        hits == { i \in DOMAIN CRYPTO_ALIASES : SearchWord(CRYPTO_ALIASES[i].alias, text_lower) }
    IN  IF hits = { } THEN None
        ELSE Some(CRYPTO_ALIASES[CHOOSE i \in hits : \A j \in hits : i <= j].symbol)

\* the end of the word that begins at position i
RECURSIVE WordEnd(_, _)
WordEnd(text, i) ==
    IF i < Len(text) /\ IsWordChar(text[i + 1]) THEN WordEnd(text, i + 1) ELSE i

\* _convert_word_numbers: every whole word that is a number word is replaced
\* by its digits (the replacements are digits, so no later re.sub of the loop
\* touches them)
RECURSIVE convert_word_numbers(_)
convert_word_numbers(text) ==
    IF Len(text) = 0 THEN text
    ELSE IF ~IsWordChar(Head(text))
    THEN << Head(text) >> \o convert_word_numbers(Tail(text))
    ELSE LET e == WordEnd(text, 1)
             w == SubSeq(text, 1, e)
             hits == { i \in DOMAIN NUMBER_WORDS : NUMBER_WORDS[i].word = w }
             rest == convert_word_numbers(SubSeq(text, e + 1, Len(text)))
         IN  IF hits = { } THEN w \o rest
             ELSE NUMBER_WORDS[CHOOSE i \in hits : TRUE].digits \o rest

IsDigit(c) == c \in { "0", "1", "2", "3", "4", "5", "6", "7", "8", "9" }

DigitValue(c) ==
    CASE c = "0" -> 0 [] c = "1" -> 1 [] c = "2" -> 2 [] c = "3" -> 3 [] c = "4" -> 4
      [] c = "5" -> 5 [] c = "6" -> 6 [] c = "7" -> 7 [] c = "8" -> 8 [] c = "9" -> 9

\* float(amount_str) of a string of digits
RECURSIVE DigitsValue(_)
DigitsValue(digits) ==
    IF Len(digits) = 0 THEN 0
    ELSE 10 * DigitsValue(SubSeq(digits, 1, Len(digits) - 1)) + DigitValue(digits[Len(digits)])

\* the end of the run of digits that begins at position i
RECURSIVE DigitsEnd(_, _)
DigitsEnd(text, i) ==
    IF i < Len(text) /\ IsDigit(text[i + 1]) THEN DigitsEnd(text, i + 1) ELSE i

\* the first position after position i that holds no whitespace
RECURSIVE SkipSpaces(_, _)
SkipSpaces(text, i) ==
    IF i < Len(text) /\ IsSpace(text[i + 1]) THEN SkipSpaces(text, i + 1) ELSE i + 1

\* the positions at which (\d+)\s*(?:units) matches with the whole run of
\* digits; the inputs carry whole numbers, the optional fraction group
\* (?:[.,]\d+)? matches empty
MatchStarts(units, text) ==
    { i \in 1..Len(text) :
        /\ IsDigit(text[i])
        /\ (i = 1 \/ ~IsDigit(text[i - 1]))
        /\ \E u \in units : OccursAt(u, text, SkipSpaces(text, DigitsEnd(text, i))) }

\* the positions at which the bare-number pattern (line 144) matches
BareStarts(text) ==
    { i \in 1..Len(text) : IsDigit(text[i]) /\ (i = 1 \/ ~IsDigit(text[i - 1])) }

\* group(1) of re.search: the digits of the leftmost match
FirstNumber(starts, text) ==
    LET i == CHOOSE k \in starts : \A j \in starts : k <= j
    IN  SubSeq(text, i, DigitsEnd(text, i))

\* the loop over AMOUNT_PATTERNS (lines 276-279): the digits the first
\* matching pattern captured, or None
RECURSIVE first_pattern_match(_, _)
first_pattern_match(n, text) ==
    IF n > Len(AMOUNT_PATTERN_UNITS)
    THEN IF BareStarts(text) = { } THEN None ELSE Some(FirstNumber(BareStarts(text), text))
    ELSE IF MatchStarts(AMOUNT_PATTERN_UNITS[n], text) # { }
    THEN Some(FirstNumber(MatchStarts(AMOUNT_PATTERN_UNITS[n], text), text))
    ELSE first_pattern_match(n + 1, text)

\* the thousand marker of line 286 is looked for in the whole text
has_thousand_marker(text_lower) ==
    Contains(<< "k" >>, text_lower) \/ Contains(<< "b", "i", "n" >>, text_lower)

\* _extract_amount
extract_amount(text) ==
    LET text_lower == lower(text)
        text_converted == convert_word_numbers(text_lower)
        m == first_pattern_match(1, text_converted)
    IN  IF IsNone(m) THEN None
        ELSE LET amount == DigitsValue(Get(m))
             IN  IF has_thousand_marker(text_lower) /\ amount < 1000
                 THEN Some(amount * 1000)
                 ELSE Some(amount)

\* "if not cmd.amount" (line 194): None and 0.0 are falsy
amount_missing(amount) == ~Truthy(amount)

\* parse; found = FALSE is None
parse(text0) ==
    LET text == normalize_text(text0)
        action == detect_action(text)
        nothing == [ found |-> FALSE, action |-> "none", side |-> "none", symbol |-> None,
                     amount |-> None, confidence |-> Zero, raw_text |-> << >> ]
    IN  IF Len(text0) = 0 THEN nothing
        ELSE IF action = "none" THEN nothing
        ELSE IF action \in { "buy", "sell" }
        THEN LET symbol == extract_symbol(text)
                 amount == extract_amount(text)
                 c1 == IF IsNone(symbol) THEN Rat(4, 5) ELSE Rat(1, 1)
                 c2 == IF amount_missing(amount) THEN RatMul(c1, Rat(1, 2)) ELSE c1
             IN  [ found |-> TRUE, action |-> action, side |-> action,
                   symbol |-> IF IsNone(symbol) THEN Some(default_symbol) ELSE symbol,
                   amount |-> amount, confidence |-> c2, raw_text |-> text ]
        ELSE [ found |-> TRUE, action |-> action, side |-> "none",
               symbol |-> IF action = "close" THEN extract_symbol(text) ELSE None,
               amount |-> None, confidence |-> Rat(1, 1), raw_text |-> text ]

\* the action words of the utterances
Verbs == { << "a", "l" >>, << "s", "a", "t" >>, << "b", "u", "y" >>, << "s", "e", "l", "l" >> }

\* the amount phrases of the utterances with the amount that is spoken: no
\* amount, "100 dolar", "100", "0 dolar", "1500 dolar", "yuz dolar" (u with diaeresis)
AmountPhrases ==
    { [ amount |-> None, words |-> << >> ],
      [ amount |-> Some(100), words |-> << "1", "0", "0", " ", "d", "o", "l", "a", "r" >> ],
      [ amount |-> Some(100), words |-> << "1", "0", "0" >> ],
      [ amount |-> Some(0), words |-> << "0", " ", "d", "o", "l", "a", "r" >> ],
      [ amount |-> Some(1500), words |-> << "1", "5", "0", "0", " ", "d", "o", "l", "a", "r" >> ],
      [ amount |-> Some(100), words |-> << "y", "u_diaeresis", "z", " ", "d", "o", "l", "a", "r" >> ] }

\* words joined by one space
JoinWords(a, b) == IF Len(b) = 0 THEN a ELSE IF Len(a) = 0 THEN b ELSE a \o << " " >> \o b

\* verb, coin name, amount phrase: the coin is an alias of the table (alias is
\* its index) or is left out (alias = 0); captured is the number written in
\* the text before any thousand marker is applied
TradeUtterances ==
    { [ verb |-> v, alias |-> a, amount |-> ph.amount, captured |-> ph.amount,
        text |-> JoinWords(JoinWords(v, IF a = 0 THEN << >> ELSE CRYPTO_ALIASES[a].alias),
                           ph.words) ] :
        v \in Verbs, a \in 0..Len(CRYPTO_ALIASES), ph \in AmountPhrases }

\* "Al BTC 100 dolar" as it is written in the class docstring, and texts of
\* the other actions, of no action, and the empty text
OtherUtterances ==
    { [ verb |-> << "A", "l" >>, alias |-> 2, amount |-> Some(100), captured |-> Some(100), text |-> << "A", "l", " ", "B", "T", "C", " ", "1", "0", "0", " ", "d", "o", "l", "a", "r" >> ] }
    \cup { [ verb |-> << >>, alias |-> 0, amount |-> None, captured |-> None, text |-> t ] :
             t \in { << >>,
                   << "h", "e", "l", "l", "o" >>,
                   << "b", "a", "k", "i", "y", "e" >>,
                   << "d", "u", "r", "u", "m" >>,
                   << "p", "o", "z", "i", "s", "y", "o", "n", "u", " ", "k", "a", "p", "a", "t" >>,
                   << "i", "p", "t", "a", "l", " ", "e", "t" >>,
                   << "c", "l", "o", "s", "e", " ", "e", "t", "h" >>,
                   << " ", " " >>,
                   << "b", "a", "l", "a", "n", "c", "e" >>,
                   << "p", "o", "z", "i", "s", "y", "o", "n", " ", "k", "a", "p", "a", "t" >>,
                   << "c_cedilla", "dotless_i", "k" >> } }
    \cup { [ verb |-> << "k", "dotless_i", "s", "a" >>, alias |-> 2, amount |-> Some(100),
              captured |-> Some(100),
              text |-> << "k", "dotless_i", "s", "a", " ", "b", "t", "c", " ", "1", "0", "0", " ", "d", "o", "l", "a", "r" >> ],
            [ verb |-> << "b", "u", "y" >>, alias |-> 2, amount |-> Some(40),
              captured |-> None,
              text |-> << "b", "u", "y", " ", "b", "t", "c", " ", "k", "dotless_i", "r", "k", " ", "d", "o", "l", "a", "r" >> ] }

\* texts with numbers that several amount patterns match and with thousand
\* markers: "al btc 5k", "al 5 tl 10 dolar", "al 20 euro 3 tl",
\* "al 7 euro 2k", "al 4 2k", "al 2000 k", "sell 999"; captured is the number
\* of the first pattern of AMOUNT_PATTERNS that matches, amount the amount
\* that is meant
AmountUtterances ==
    { [ verb |-> << "a", "l" >>, alias |-> 2, amount |-> Some(5000), captured |-> Some(5),
        text |-> << "a", "l", " ", "b", "t", "c", " ", "5", "k" >> ],
      [ verb |-> << "a", "l" >>, alias |-> 0, amount |-> Some(10), captured |-> Some(10),
        text |-> << "a", "l", " ", "5", " ", "t", "l", " ", "1", "0", " ", "d", "o", "l", "a", "r" >> ],
      [ verb |-> << "a", "l" >>, alias |-> 0, amount |-> Some(3), captured |-> Some(3),
        text |-> << "a", "l", " ", "2", "0", " ", "e", "u", "r", "o", " ", "3", " ", "t", "l" >> ],
      [ verb |-> << "a", "l" >>, alias |-> 0, amount |-> Some(7000), captured |-> Some(7),
        text |-> << "a", "l", " ", "7", " ", "e", "u", "r", "o", " ", "2", "k" >> ],
      [ verb |-> << "a", "l" >>, alias |-> 0, amount |-> Some(2000), captured |-> Some(2),
        text |-> << "a", "l", " ", "4", " ", "2", "k" >> ],
      [ verb |-> << "a", "l" >>, alias |-> 0, amount |-> Some(2000), captured |-> Some(2000),
        text |-> << "a", "l", " ", "2", "0", "0", "0", " ", "k" >> ],
      [ verb |-> << "s", "e", "l", "l" >>, alias |-> 0, amount |-> Some(999), captured |-> Some(999),
        text |-> << "s", "e", "l", "l", " ", "9", "9", "9" >> ] }

Utterances == TradeUtterances \cup OtherUtterances \cup AmountUtterances

ParserInit ==
    /\ ExecutorIdle
    /\ SizingIdle
    /\ ListenerIdle
    /\ SmallIdle
    /\ parse_input \in { Some(u) : u \in Utterances }
    /\ parse_result = None

\* CommandParser.parse(text)
parse_call ==
    /\ IsNone(parse_result)
    /\ parse_result' = Some(parse(Get(parse_input).text))
    /\ UNCHANGED parse_input
    /\ UNCHANGED outside_parser

ParserNext == parse_call

ParserSpec == ParserInit /\ [][ParserNext]_vars

----------------------------------------------------------------------------
(* Properties of the parser *)

Parsed == ~IsNone(parse_result) /\ Get(parse_result).found

IsTrade == Get(parse_result).action \in { "buy", "sell" }

\* C19: a recognized buy/sell utterance that names an alias of the table and
\* a (non-zero) amount is parsed with confidence 1.0, the canonical symbol of
\* that alias and the amount that was spoken.
C19_KnownAliasAndAmount ==
    (Parsed /\ IsTrade /\ Get(parse_input).alias # 0 /\ Truthy(Get(parse_input).amount)) =>
        /\ Get(parse_result).confidence = Rat(1, 1)
        /\ Get(parse_result).symbol = Some(CRYPTO_ALIASES[Get(parse_input).alias].symbol)
        /\ Get(parse_result).amount = Get(parse_input).amount

\* the confidence the penalties give for what the utterance leaves out
ExpectedConfidence(u) ==
    RatMul(IF u.alias = 0 THEN Rat(4, 5) ELSE Rat(1, 1),
           IF IsNone(u.amount) THEN Rat(1, 2) ELSE Rat(1, 1))

\* C20: the confidence is 1.0 lowered by 0.8 for a missing symbol and by 0.5
\* for a missing amount (0.4 for both), 1.0 for the other actions, never
\* lowered for an amount that was found, and always in (0, 1].
C20_ConfidencePenalties ==
    Parsed =>
        /\ RatLess(Zero, Get(parse_result).confidence)
        /\ RatLeq(Get(parse_result).confidence, Rat(1, 1))
        /\ IF IsTrade
           THEN Get(parse_result).confidence = ExpectedConfidence(Get(parse_input))
           ELSE Get(parse_result).confidence = Rat(1, 1)

\* C21: the action is that of the first of the six keyword sets, in the order
\* close, cancel, buy, sell, status, balance, that has a keyword occurring as a
\* substring of the normalized text; a text in which no keyword occurs (the
\* empty and the all-whitespace text among them) yields no result; every call
\* returns.
C21_FirstKeywordSetWins ==
    ~IsNone(parse_result) =>
        LET text == normalize_text(Get(parse_input).text)
            sets == << [ action |-> "close", keywords |-> CLOSE_KEYWORDS ],
                       [ action |-> "cancel", keywords |-> CANCEL_KEYWORDS ],
                       [ action |-> "buy", keywords |-> BUY_KEYWORDS ],
                       [ action |-> "sell", keywords |-> SELL_KEYWORDS ],
                       [ action |-> "status", keywords |-> STATUS_KEYWORDS ],
                       [ action |-> "balance", keywords |-> BALANCE_KEYWORDS ] >>
            hits == { i \in DOMAIN sets : AnyKeyword(sets[i].keywords, text) }
        IN  IF hits = { }
            THEN ~Get(parse_result).found
            ELSE /\ Get(parse_result).found
                 /\ Get(parse_result).action =
                        sets[CHOOSE i \in hits : \A j \in hits : i <= j].action

\* a text with keywords of two sets ("iptal et" holds "al") was parsed
C21_Witness ==
    /\ Parsed
    /\ Get(parse_result).action = "cancel"
    /\ AnyKeyword(BUY_KEYWORDS, Get(parse_result).raw_text)

\* C22: normalization keeps the Turkish letters, dotless i among them: the
\* raw text is the lowered input with its whitespace collapsed, a text that
\* holds a keyword of the tables is given an action, and a buy/sell text
\* that holds a number word of the table as a word is given an amount.
C22_TurkishLettersPreserved ==
    ~IsNone(parse_result) =>
        LET lowered == collapse_spaces(strip(lower(Get(parse_input).text)))
            tables == << CLOSE_KEYWORDS, CANCEL_KEYWORDS, BUY_KEYWORDS, SELL_KEYWORDS,
                         STATUS_KEYWORDS, BALANCE_KEYWORDS >>
        IN  /\ Parsed => Get(parse_result).raw_text = lowered
            /\ (\E n \in DOMAIN tables : AnyKeyword(tables[n], lowered)) => Parsed
            /\ (Parsed /\ IsTrade /\ \E n \in DOMAIN NUMBER_WORDS :
                                        SearchWord(NUMBER_WORDS[n].word, lowered))
                   => ~IsNone(Get(parse_result).amount)

----------------------------------------------------------------------------
(* CommandValidator (core/command_parser.py)                                 *)

MIN_AMOUNT == ToFloat(1)

MAX_AMOUNT == ToFloat(100000)

VALID_SYMBOLS ==
    { "BTCUSDT", "ETHUSDT", "BNBUSDT", "SOLUSDT", "XRPUSDT", "DOGEUSDT", "ADAUSDT",
      "DOTUSDT", "AVAXUSDT", "LINKUSDT", "LTCUSDT", "MATICUSDT" }

\* an error message: which check wrote it and the values its text is
\* formatted from
ErrorMessage(kind, symbol, amount, limit) ==
    [ kind |-> kind, symbol |-> symbol, amount |-> amount, limit |-> limit ]

\* validate with the lower limit itself rejected (amount <= MIN_AMOUNT)
validate_min_rejected(cmd) ==
    IF IsNone(cmd)
    THEN [ is_valid |-> FALSE, errors |-> << ErrorMessage("unparsed", None, None, None) >> ]
    ELSE LET c == Get(cmd)
             trade == c.action \in { "buy", "sell" }
             symbol_errors ==
                 IF trade /\ ~IsNone(c.symbol) /\ Get(c.symbol) # ""
                          /\ Get(c.symbol) \notin VALID_SYMBOLS
                 THEN << ErrorMessage("symbol", c.symbol, None, None) >>
                 ELSE << >>
             amount_errors ==
                 IF ~trade THEN << >>
                 ELSE IF IsNone(c.amount)
                 THEN << ErrorMessage("amount_missing", None, None, None) >>
                 ELSE IF RatLeq(Get(c.amount), MIN_AMOUNT)
                 THEN << ErrorMessage("amount_low", None, c.amount, Some(MIN_AMOUNT)) >>
                 ELSE IF RatLess(MAX_AMOUNT, Get(c.amount))
                 THEN << ErrorMessage("amount_high", None, c.amount, Some(MAX_AMOUNT)) >>
                 ELSE << >>
             confidence_errors ==
                 IF RatLess(c.confidence, Rat(1, 2))
                 THEN << ErrorMessage("ambiguous", None, None, None) >>
                 ELSE << >>
             errors == symbol_errors \o amount_errors \o confidence_errors
         IN  [ is_valid |-> Len(errors) = 0, errors |-> errors ]

\* validate returning at the first error it finds
validate_first_error_only(cmd) ==
    IF IsNone(cmd)
    THEN [ is_valid |-> FALSE, errors |-> << ErrorMessage("unparsed", None, None, None) >> ]
    ELSE LET c == Get(cmd)
             trade == c.action \in { "buy", "sell" }
             symbol_errors ==
                 IF trade /\ ~IsNone(c.symbol) /\ Get(c.symbol) # ""
                          /\ Get(c.symbol) \notin VALID_SYMBOLS
                 THEN << ErrorMessage("symbol", c.symbol, None, None) >>
                 ELSE << >>
             amount_errors ==
                 IF ~trade THEN << >>
                 ELSE IF IsNone(c.amount)
                 THEN << ErrorMessage("amount_missing", None, None, None) >>
                 ELSE IF RatLess(Get(c.amount), MIN_AMOUNT)
                 THEN << ErrorMessage("amount_low", None, c.amount, Some(MIN_AMOUNT)) >>
                 ELSE IF RatLess(MAX_AMOUNT, Get(c.amount))
                 THEN << ErrorMessage("amount_high", None, c.amount, Some(MAX_AMOUNT)) >>
                 ELSE << >>
             confidence_errors ==
                 IF RatLess(c.confidence, Rat(1, 2))
                 THEN << ErrorMessage("ambiguous", None, None, None) >>
                 ELSE << >>
             errors == symbol_errors \o amount_errors \o confidence_errors
         IN  [ is_valid |-> Len(errors) = 0,
               errors |-> IF Len(errors) = 0 THEN errors ELSE << Head(errors) >> ]

\* CommandValidator.validate: (is_valid, errors); "if cmd.symbol" is false
\* for None and for the empty string
validate(cmd) ==
    IF IsNone(cmd)
    THEN [ is_valid |-> FALSE, errors |-> << ErrorMessage("unparsed", None, None, None) >> ]
    ELSE LET c == Get(cmd)
             trade == c.action \in { "buy", "sell" }
             symbol_errors ==
                 IF trade /\ ~IsNone(c.symbol) /\ Get(c.symbol) # ""
                          /\ Get(c.symbol) \notin VALID_SYMBOLS
                 THEN << ErrorMessage("symbol", c.symbol, None, None) >>
                 ELSE << >>
             amount_errors ==
                 IF ~trade THEN << >>
                 ELSE IF IsNone(c.amount)
                 THEN << ErrorMessage("amount_missing", None, None, None) >>
                 ELSE IF RatLess(Get(c.amount), MIN_AMOUNT)
                 THEN << ErrorMessage("amount_low", None, c.amount, Some(MIN_AMOUNT)) >>
                 ELSE IF RatLess(MAX_AMOUNT, Get(c.amount))
                 THEN << ErrorMessage("amount_high", None, c.amount, Some(MAX_AMOUNT)) >>
                 ELSE << >>
             confidence_errors ==
                 IF RatLess(c.confidence, Rat(1, 2))
                 THEN << ErrorMessage("ambiguous", None, None, None) >>
                 ELSE << >>
             errors == symbol_errors \o amount_errors \o confidence_errors
         IN  [ is_valid |-> Len(errors) = 0, errors |-> errors ]

\* the commands given to validate: no command, and every ParsedCommand over
\* the six actions, an absent, a listed and an unlisted symbol, amounts on
\* both sides of each limit and on it, confidences on both sides of 0.5 and
\* on it
ValidatorCommands ==
    { None } \cup
    { Some(c) : c \in
        [ action : { "buy", "sell", "close", "cancel", "status", "balance" },
          symbol : { None, Some("BTCUSDT"), Some("MATICUSDT"), Some("SHIBUSDT") },
          amount : { None, Some(Rat(-5, 1)), Some(Zero), Some(Rat(99, 100)), Some(Rat(1, 1)),
                     Some(Rat(100, 1)), Some(Rat(100000, 1)), Some(Rat(10000001, 100)),
                     Some(Rat(200000, 1)) },
          confidence : { Rat(2, 5), Rat(49, 100), Rat(1, 2), Rat(4, 5), Rat(1, 1) } ] }

ValidatorInit ==
    /\ ExecutorIdle
    /\ SizingIdle
    /\ ListenerIdle
    /\ ParserIdle
    /\ RiskIdle
    /\ PaperIdle
    /\ validate_cmd \in { Some(c) : c \in ValidatorCommands }
    /\ validate_ret = None

\* CommandValidator.validate(cmd)
validate_call ==
    /\ IsNone(validate_ret)
    /\ validate_ret' = Some(validate(Get(validate_cmd)))
    /\ UNCHANGED validate_cmd
    /\ UNCHANGED outside_validator

ValidatorNext == validate_call

ValidatorSpec == ValidatorInit /\ [][ValidatorNext]_vars

----------------------------------------------------------------------------
(* Properties of the validator *)

\* validate returned for a command (not for None)
Validated == ~IsNone(validate_ret) /\ ~IsNone(Get(validate_cmd))

\* the errors of the given kinds, in the order validate returned them
ErrorsOf(kinds) == SelectSeq(Get(validate_ret).errors, LAMBDA e : e.kind \in kinds)

\* C23: for a buy/sell command with an amount there is an amount error if and
\* only if the amount is below 1.0 or above 100000.0 (1.0 and 100000.0 are
\* accepted) and the error names the limit that was violated; a buy/sell
\* command without an amount has the missing-amount error; a symbol that is
\* present and not one of the twelve listed is an error naming it; for the
\* other actions neither symbol nor amount is checked.
C23_AmountAndSymbolChecks ==
    Validated =>
        LET c == Get(Get(validate_cmd))
            amount_errors == ErrorsOf({ "amount_low", "amount_high" })
            symbol_errors == ErrorsOf({ "symbol" })
            missing_errors == ErrorsOf({ "amount_missing" })
        IN  IF c.action \in { "buy", "sell" }
            THEN /\ IF IsNone(c.amount)
                    THEN Len(missing_errors) = 1 /\ Len(amount_errors) = 0
                    ELSE /\ Len(missing_errors) = 0
                         /\ IF RatLess(Get(c.amount), Rat(1, 1))
                            THEN amount_errors =
                                   << ErrorMessage("amount_low", None, c.amount, Some(Rat(1, 1))) >>
                            ELSE IF RatLess(Rat(100000, 1), Get(c.amount))
                            THEN amount_errors =
                                   << ErrorMessage("amount_high", None, c.amount,
                                                   Some(Rat(100000, 1))) >>
                            ELSE Len(amount_errors) = 0
                 /\ IF ~IsNone(c.symbol) /\ Get(c.symbol) \notin VALID_SYMBOLS
                    THEN symbol_errors = << ErrorMessage("symbol", c.symbol, None, None) >>
                    ELSE Len(symbol_errors) = 0
            ELSE Len(amount_errors) + Len(symbol_errors) + Len(missing_errors) = 0

\* a buy/sell command with the upper limit itself as amount was accepted
C23_Witness ==
    /\ Validated
    /\ Get(Get(validate_cmd)).action = "sell"
    /\ Get(Get(validate_cmd)).amount = Some(Rat(100000, 1))
    /\ Get(validate_ret).is_valid

\* C24: is_valid is true exactly when the error list is empty; the symbol
\* error, the amount error and the ambiguity error are all collected, in
\* this order, whenever their conditions hold together; a confidence below
\* 0.5 adds the ambiguity error for every action and a confidence of 0.5
\* does not; no command gives invalid with exactly one error.
C24_AllErrorsCollected ==
    ~IsNone(validate_ret) =>
        LET ret == Get(validate_ret)
            kinds == [ i \in DOMAIN ret.errors |-> ret.errors[i].kind ]
        IN  /\ ret.is_valid <=> (Len(ret.errors) = 0)
            /\ IF IsNone(Get(validate_cmd))
               THEN ~ret.is_valid /\ Len(ret.errors) = 1
               ELSE LET c == Get(Get(validate_cmd))
                        trade == c.action \in { "buy", "sell" }
                        bad_symbol == trade /\ ~IsNone(c.symbol)
                                            /\ Get(c.symbol) \notin VALID_SYMBOLS
                        bad_amount == trade /\ (IsNone(c.amount)
                                                \/ RatLess(Get(c.amount), Rat(1, 1))
                                                \/ RatLess(Rat(100000, 1), Get(c.amount)))
                        ambiguous == RatLess(c.confidence, Rat(1, 2))
                    IN  /\ Len(ErrorsOf({ "symbol" })) = (IF bad_symbol THEN 1 ELSE 0)
                        /\ Len(ErrorsOf({ "amount_low", "amount_high", "amount_missing" }))
                              = (IF bad_amount THEN 1 ELSE 0)
                        /\ Len(ErrorsOf({ "ambiguous" })) = (IF ambiguous THEN 1 ELSE 0)
                        /\ Len(ErrorsOf({ "unparsed" })) = 0
                        /\ \A i, j \in DOMAIN kinds :
                              (i < j) =>
                                 /\ kinds[j] # "symbol"
                                 /\ kinds[i] # "ambiguous"

\* a command with an unlisted symbol, an amount out of range and a low
\* confidence got all three errors
C24_Witness ==
    /\ ~IsNone(validate_ret)
    /\ Len(Get(validate_ret).errors) = 3
    /\ ~Get(validate_ret).is_valid

----------------------------------------------------------------------------
(* RiskManager (core/risk_manager.py)                                        *)

\* what db.get_setting(key) does for one key: it raises, returns None (no
\* row), returns a text float() rejects, or returns the text of a number
SettingAnswers(numbers) ==
    { [ kind |-> "raises", value |-> None ],
      [ kind |-> "none", value |-> None ],
      [ kind |-> "not_a_number", value |-> None ] }
    \cup { [ kind |-> "number", value |-> Some(ToFloat(n)) ] : n \in numbers }

\* _get_float_setting reading a text that is not a number as 0.0
get_float_setting_text_as_zero(answer) ==
    IF answer.kind = "raises" THEN None
    ELSE IF answer.kind = "none" THEN None
    ELSE IF answer.kind = "not_a_number" THEN Some(Zero)
    ELSE answer.value

\* _get_float_setting on the answer of the settings store
get_float_setting(answer) ==
    IF answer.kind = "raises" THEN None
    ELSE IF answer.kind = "none" THEN None
    ELSE IF answer.kind = "not_a_number" THEN None
    ELSE answer.value

\* f"{x:.2f}": x rounded to hundredths (the numbers of the model have at most
\* two decimals, so the rounding rule never decides)
Format2f(x) == Rat((x.n * 200 + x.d) \div (2 * x.d), 100)

\* int(x) of a float: truncation towards zero
PyInt(x) == IF x.n >= 0 THEN x.n \div x.d ELSE -((-x.n) \div x.d)

\* _log_risk_event without the try/except around the audit write
log_risk_event_unguarded(db, message) ==
    [ call |-> [ name |-> "insert_system_log", arg |-> message,
                 raised |-> db.insert_raises ],
      exc |-> IF db.insert_raises THEN "OperationalError" ELSE "none" ]

\* _log_risk_event: the insert_system_log call and the exception that leaves
\* _log_risk_event ("none": the try/except of lines 122-126 swallows it)
log_risk_event(db, message) ==
    [ call |-> [ name |-> "insert_system_log", arg |-> message,
                 raised |-> db.insert_raises ],
      exc |-> "none" ]

\* a get_setting call as it is recorded
GetSettingCall(key) == [ name |-> "get_setting", arg |-> key, raised |-> FALSE ]

\* how a call that raised RiskLimitError ended: the rule and the two values
\* formatted into the message
RiskLimitError(rule, value, limit) ==
    [ exc |-> "RiskLimitError", rule |-> rule, value |-> value, limit |-> limit ]

\* check_order_risk with the leverage rule applied before the notional rule
check_order_risk_leverage_first(db, ctx) ==
    LET max_notional == get_float_setting(db.max_notional_usd)
        max_leverage == get_float_setting(db.max_leverage)
        read_notional == << GetSettingCall("risk.max_notional_usd") >>
        read_leverage == << GetSettingCall("risk.max_leverage") >>
        passed == [ exc |-> "none", rule |-> "none", value |-> None, limit |-> None ]
    IN  IF ~IsNone(max_leverage) /\ RatLess(Get(max_leverage), ToFloat(ctx.leverage))
        THEN LET log == log_risk_event(db, "Max leverage limit exceeded")
             IN  [ calls |-> read_leverage \o << log.call >>,
                   ret |-> IF log.exc # "none"
                           THEN [ passed EXCEPT !.exc = log.exc ]
                           ELSE RiskLimitError("leverage", Some(ToFloat(ctx.leverage)),
                                               Some(ToFloat(PyInt(Get(max_leverage))))) ]
        ELSE IF ~IsNone(max_notional) /\ RatLess(Get(max_notional), ctx.notional_usd)
        THEN LET log == log_risk_event(db, "Max notional limit exceeded")
             IN  [ calls |-> read_leverage \o read_notional \o << log.call >>,
                   ret |-> IF log.exc # "none"
                           THEN [ passed EXCEPT !.exc = log.exc ]
                           ELSE RiskLimitError("notional", Some(Format2f(ctx.notional_usd)),
                                               Some(Format2f(Get(max_notional)))) ]
        ELSE [ calls |-> read_notional \o read_leverage, ret |-> passed ]

\* check_order_risk: the database calls it makes and how it ends
check_order_risk(db, ctx) ==
    LET max_notional == get_float_setting(db.max_notional_usd)
        max_leverage == get_float_setting(db.max_leverage)
        read_notional == << GetSettingCall("risk.max_notional_usd") >>
        read_leverage == << GetSettingCall("risk.max_leverage") >>
        passed == [ exc |-> "none", rule |-> "none", value |-> None, limit |-> None ]
    IN  IF ~IsNone(max_notional) /\ RatLess(Get(max_notional), ctx.notional_usd)
        THEN LET log == log_risk_event(db, "Max notional limit exceeded")
             IN  [ calls |-> read_notional \o << log.call >>,
                   ret |-> IF log.exc # "none"
                           THEN [ passed EXCEPT !.exc = log.exc ]
                           ELSE RiskLimitError("notional", Some(Format2f(ctx.notional_usd)),
                                               Some(Format2f(Get(max_notional)))) ]
        ELSE IF ~IsNone(max_leverage) /\ RatLess(Get(max_leverage), ToFloat(ctx.leverage))
        THEN LET log == log_risk_event(db, "Max leverage limit exceeded")
             IN  [ calls |-> read_notional \o read_leverage \o << log.call >>,
                   ret |-> IF log.exc # "none"
                           THEN [ passed EXCEPT !.exc = log.exc ]
                           ELSE RiskLimitError("leverage", Some(ToFloat(ctx.leverage)),
                                               Some(ToFloat(PyInt(Get(max_leverage))))) ]
        ELSE [ calls |-> read_notional \o read_leverage, ret |-> passed ]

\* the stores: each setting unreadable, unset, not a number, or a limit
\* (1000 USD, leverage 20); the audit write succeeds or raises
RiskDbs ==
    [ max_notional_usd : SettingAnswers({ 1000 }),
      max_leverage : SettingAnswers({ 20 }),
      insert_raises : BOOLEAN ]

\* the contexts: notional and leverage below, on and above the limits
OrderRiskContexts ==
    [ symbol : { "BTCUSDT" }, side : { "buy" },
      notional_usd : { Zero, ToFloat(1000), Rat(100001, 100), ToFloat(1500) },
      leverage : { 1, 20, 21, 125 },
      is_paper : BOOLEAN ]

RiskInit ==
    /\ ExecutorIdle
    /\ SizingIdle
    /\ ListenerIdle
    /\ ParserIdle
    /\ ValidatorIdle
    /\ PaperIdle
    /\ risk_db \in { Some(d) : d \in RiskDbs }
    /\ risk_ctx \in { Some(c) : c \in OrderRiskContexts }
    /\ risk_calls = << >>
    /\ risk_ret = None

\* RiskManager.check_order_risk(ctx)
check_order_risk_call ==
    /\ IsNone(risk_ret)
    /\ LET r == check_order_risk(Get(risk_db), Get(risk_ctx))
       IN  /\ risk_calls' = r.calls
           /\ risk_ret' = Some(r.ret)
    /\ UNCHANGED << risk_db, risk_ctx >>
    /\ UNCHANGED outside_risk

RiskNext == check_order_risk_call

RiskSpec == RiskInit /\ [][RiskNext]_vars

----------------------------------------------------------------------------
(* Properties of the risk manager *)

\* the limit a setting configures: present and a number
ConfiguredLimit(answer) == IF answer.kind = "number" THEN answer.value ELSE None

\* the context is strictly above the configured notional (leverage) limit
NotionalViolated ==
    /\ ~IsNone(ConfiguredLimit(Get(risk_db).max_notional_usd))
    /\ RatLess(Get(ConfiguredLimit(Get(risk_db).max_notional_usd)), Get(risk_ctx).notional_usd)

LeverageViolated ==
    /\ ~IsNone(ConfiguredLimit(Get(risk_db).max_leverage))
    /\ RatLess(Get(ConfiguredLimit(Get(risk_db).max_leverage)), ToFloat(Get(risk_ctx).leverage))

\* C25: a rule applies only if its setting is present and parses as a
\* number: with the setting unset, unparsable or unreadable every notional
\* (leverage) passes that rule; with a limit set, a value strictly above it
\* raises the risk-limit error whose message names the value and the limit,
\* and a value equal to the limit passes.
C25_RuleOnlyIfConfigured ==
    ~IsNone(risk_ret) =>
        LET ret == Get(risk_ret)
            ctx == Get(risk_ctx)
        IN  IF NotionalViolated
            THEN ret = RiskLimitError("notional", Some(ctx.notional_usd),
                                      ConfiguredLimit(Get(risk_db).max_notional_usd))
            ELSE IF LeverageViolated
            THEN ret = RiskLimitError("leverage", Some(ToFloat(ctx.leverage)),
                                      ConfiguredLimit(Get(risk_db).max_leverage))
            ELSE ret.exc = "none"

\* a context on the notional limit and above the leverage limit was
\* rejected by the leverage rule
C25_Witness ==
    /\ ~IsNone(risk_ret)
    /\ Get(risk_ctx).notional_usd = ToFloat(1000)
    /\ Get(risk_db).max_notional_usd.kind = "number"
    /\ Get(risk_ret).rule = "leverage"

\* C26: when the context violates both configured limits, the error and the
\* logged event are those of the notional rule and risk.max_leverage is not
\* read.
C26_NotionalBeforeLeverage ==
    (~IsNone(risk_ret) /\ NotionalViolated /\ LeverageViolated) =>
        /\ Get(risk_ret).exc = "RiskLimitError"
        /\ Get(risk_ret).rule = "notional"
        /\ \A i \in DOMAIN risk_calls :
              /\ risk_calls[i].name = "insert_system_log"
                    => risk_calls[i].arg = "Max notional limit exceeded"
              /\ risk_calls[i].arg # "risk.max_leverage"
        /\ \E i \in DOMAIN risk_calls : risk_calls[i].name = "insert_system_log"

C26_Witness ==
    /\ ~IsNone(risk_ret)
    /\ NotionalViolated
    /\ LeverageViolated
    /\ Len(risk_calls) = 2

\* C27: when a rule is violated and the audit write raises, the call still
\* ends with the risk-limit error and its message, never with the exception
\* of the write.
C27_LogFailureSwallowed ==
    (~IsNone(risk_ret) /\ (NotionalViolated \/ LeverageViolated)
                       /\ Get(risk_db).insert_raises) =>
        /\ Get(risk_ret).exc = "RiskLimitError"
        /\ ~IsNone(Get(risk_ret).value)
        /\ ~IsNone(Get(risk_ret).limit)

\* the audit write raised during a violation of the leverage rule
C27_Witness ==
    /\ ~IsNone(risk_ret)
    /\ \E i \in DOMAIN risk_calls : risk_calls[i].raised
    /\ Get(risk_ret).rule = "leverage"

----------------------------------------------------------------------------
(* PaperTradingEngine (core/paper_trading_engine.py) used on its own         *)

\* the number of execute_order calls of one run
MaxPaperOrders == 3

\* execute_order numbering its orders from 0
execute_order_counts_from_zero(n, p, q, price) ==
    [ id |-> << "paper", n - 1 >>, symbol |-> p.symbol, side |-> p.side,
      type |-> p.order_type, status |-> "closed", amount |-> q, filled |-> q,
      price |-> price, average |-> price, cost |-> RatMul(q, price),
      info |-> [ mode |-> "paper" ] ]

\* execute_order leaving half of the quantity open
execute_order_half_filled(n, p, q, price) ==
    [ id |-> << "paper", n >>, symbol |-> p.symbol, side |-> p.side,
      type |-> p.order_type, status |-> "open", amount |-> q,
      filled |-> RatMul(q, Rat(1, 2)),
      price |-> price, average |-> price, cost |-> RatMul(q, price),
      info |-> [ mode |-> "paper" ] ]

\* the dict execute_order returns (lines 46-69) when the counter has become
\* n; the id is f"paper-{n}"; the timestamp is left out
execute_order(n, p, q, price) ==
    [ id |-> << "paper", n >>, symbol |-> p.symbol, side |-> p.side,
      type |-> p.order_type, status |-> "closed", amount |-> q, filled |-> q,
      price |-> price, average |-> price, cost |-> RatMul(q, price),
      info |-> [ mode |-> "paper" ] ]

\* what getattr(params, name, None) finds: the attributes of an OrderParams,
\* or None for an object without them
PaperParams ==
    { [ symbol |-> Some("BTCUSDT"), side |-> Some("buy"), order_type |-> Some("market") ],
      [ symbol |-> Some("ETHUSDT"), side |-> Some("sell"), order_type |-> Some("limit") ],
      [ symbol |-> None, side |-> None, order_type |-> None ] }

PaperQuantities == { Zero, Rat(1, 2), Rat(-2, 1) }

PaperPrices == { Zero, Rat(3, 1) }

PaperInit ==
    /\ ExecutorIdle
    /\ SizingIdle
    /\ ListenerIdle
    /\ ParserIdle
    /\ ValidatorIdle
    /\ RiskIdle
    /\ PaperIdle

\* PaperTradingEngine.execute_order(params, qty, price), one call after the
\* other
execute_order_call ==
    /\ Len(paper_log) < MaxPaperOrders
    /\ \E p \in PaperParams, q \in PaperQuantities, price \in PaperPrices :
          /\ engine_order_counter' = engine_order_counter + 1
          /\ paper_log' = Append(paper_log,
                [ params |-> p, qty |-> q, price |-> price,
                  order |-> execute_order(engine_order_counter + 1, p, q, price) ])
    /\ UNCHANGED paper_threads
    /\ UNCHANGED outside_paper

PaperNext == execute_order_call

PaperSpec == PaperInit /\ [][PaperNext]_vars

----------------------------------------------------------------------------
(* Properties of the paper trading engine *)

\* C28: under sequential use of one engine the n-th call of execute_order
\* returns the id "paper-n": the counter starts at 0 and is the number of
\* calls made, so it grows by one per call and no two calls return the same
\* id.
C28_NthOrderIsPaperN ==
    /\ engine_order_counter = Len(paper_log)
    /\ \A n \in DOMAIN paper_log : paper_log[n].order.id = << "paper", n >>
    /\ \A m, n \in DOMAIN paper_log : m # n => paper_log[m].order.id # paper_log[n].order.id

\* every call of the run was made
C28_Witness ==
    /\ Len(paper_log) = MaxPaperOrders
    /\ paper_log[Len(paper_log)].order.id = << "paper", MaxPaperOrders >>

\* C29: execute_order rejects nothing and fills everything: for every
\* params, quantity and price the returned record has status "closed",
\* amount = filled = quantity, price = average = price, cost = quantity *
\* price, and the symbol, side and order type of the params.
C29_AlwaysFullyFilled ==
    \A n \in DOMAIN paper_log :
        LET call == paper_log[n]
        IN  /\ call.order.status = "closed"
            /\ call.order.amount = call.qty
            /\ call.order.filled = call.qty
            /\ call.order.price = call.price
            /\ call.order.average = call.price
            /\ call.order.cost = RatMul(call.qty, call.price)
            /\ call.order.symbol = call.params.symbol
            /\ call.order.side = call.params.side
            /\ call.order.type = call.params.order_type

\* an order with a negative quantity and one for an object without
\* attributes were both filled
C29_Witness ==
    /\ \E n \in DOMAIN paper_log : RatLess(paper_log[n].qty, Zero)
    /\ \E n \in DOMAIN paper_log : IsNone(paper_log[n].params.symbol)

----------------------------------------------------------------------------
(* The loudness threshold of the passive loop *)

\* the transcription capability was invoked in the current passive cycle
TranscriptionInvoked ==
    \/ worker = "passive_transcribe"
    \/ cycle.what \in { "transcript", "transcription_error" }

\* C30: in a passive cycle, for every sensitivity in 1..10 and every level in
\* 0..100, the transcription is invoked if and only if level >= 16 -
\* sensitivity; a chunk below the threshold gives no transcription call, no
\* wake event and no mode change, and its level event is still emitted.
C30_TranscribeIffLoudEnough ==
    (cycle.kind = "passive" /\ cycle.level >= 0) =>
        /\ TranscriptionInvoked <=> (cycle.level >= 16 - sensitivity)
        /\ (cycle.level < 16 - sensitivity) =>
              /\ cycle.what = "silence"
              /\ IsNone(cycle.text)
              /\ cycle.emitted = << >>
              /\ worker # "passive_transcribe"

\* at the lowest sensitivity a chunk on the threshold (15) was transcribed in
\* a later cycle of the run
C30_Witness ==
    /\ sensitivity = 1
    /\ cycle.kind = "passive"
    /\ cycle.level = 15
    /\ worker = "passive_transcribe"
    /\ nchunks > 1

----------------------------------------------------------------------------
(* Further properties of the command parser: amounts *)

\* C32: the number comes from the first of the five patterns, in the order
\* dollar, lira, euro, k/bin, bare number, that matches; it is multiplied by
\* 1000, once, exactly when it is below 1000 and the text contains "k" or
\* "bin" ("al btc 5k" gives 5000), and is returned unchanged when the text
\* has no thousand marker.
C32_PatternOrderAndThousands ==
    (Parsed /\ IsTrade /\ ~IsNone(Get(parse_input).captured)) =>
        LET u == Get(parse_input)
            number == Get(u.captured)
            marked == \/ Contains(<< "k" >>, lower(u.text))
                      \/ Contains(<< "b", "i", "n" >>, lower(u.text))
        IN  Get(parse_result).amount =
                Some(IF marked /\ number < 1000 THEN number * 1000 ELSE number)

\* "al 7 euro 2k" was parsed: the euro pattern supplied 7, the k made it 7000
C32_Witness ==
    /\ Parsed
    /\ Get(parse_input).captured = Some(7)
    /\ Get(parse_result).amount = Some(7000)

----------------------------------------------------------------------------
(* PaperTradingEngine.execute_order called from several threads            *)
(* (src/core/paper_trading_engine.py, lines 45-46): the statement          *)
(* "self._order_counter += 1" reads the attribute, adds one and writes it  *)
(* back, and the id is built from a further read of the attribute; another *)
(* thread can run between any two of these steps.                          *)

\* the threads inside execute_order
InFlight == { u \in EngineCallers : paper_threads[u].at \in { "loaded", "stored" } }

\* thread t calls execute_order and reads _order_counter (line 45, the read of
\* "+="); the calls in flight at this moment overlap with this one
execute_order_load(t) ==
    /\ paper_threads[t].at = "idle"
    /\ \E p \in PaperParams, q \in { Rat(1, 2) }, price \in { Rat(3, 1) } :
          paper_threads' =
              [ u \in EngineCallers |->
                  IF u = t
                  THEN [ at |-> "loaded", args |-> Some([ params |-> p, qty |-> q, price |-> price ]),
                         loaded |-> engine_order_counter, order |-> None,
                         overlapped |-> InFlight ]
                  ELSE IF u \in InFlight
                  THEN [ paper_threads[u] EXCEPT !.overlapped = @ \cup { t } ]
                  ELSE paper_threads[u] ]
    /\ UNCHANGED << engine_order_counter, paper_log >>
    /\ UNCHANGED outside_paper

\* the write of "+=" storing the value read, without adding one
execute_order_store_no_increment(t) ==
    /\ paper_threads[t].at = "loaded"
    /\ engine_order_counter' = paper_threads[t].loaded
    /\ paper_threads' = [ paper_threads EXCEPT ![t].at = "stored" ]
    /\ UNCHANGED paper_log
    /\ UNCHANGED outside_paper

\* thread t writes the value it read plus one (line 45, the write of "+=")
execute_order_store(t) ==
    /\ paper_threads[t].at = "loaded"
    /\ engine_order_counter' = paper_threads[t].loaded + 1
    /\ paper_threads' = [ paper_threads EXCEPT ![t].at = "stored" ]
    /\ UNCHANGED paper_log
    /\ UNCHANGED outside_paper

\* thread t reads _order_counter again for the id (line 46), builds the order
\* and returns it (lines 48-82)
execute_order_return(t) ==
    /\ paper_threads[t].at = "stored"
    /\ LET a == Get(paper_threads[t].args)
       IN  paper_threads' =
               [ paper_threads EXCEPT
                   ![t].at = "returned",
                   ![t].order = Some(execute_order(engine_order_counter, a.params, a.qty, a.price)) ]
    /\ UNCHANGED << engine_order_counter, paper_log >>
    /\ UNCHANGED outside_paper

ConcurrentPaperNext ==
    \E t \in EngineCallers :
        \/ execute_order_load(t)
        \/ execute_order_store(t)
        \/ execute_order_return(t)

ConcurrentPaperSpec == PaperInit /\ [][ConcurrentPaperNext]_vars

\* the threads whose call has returned
ReturnedCallers == { t \in EngineCallers : paper_threads[t].at = "returned" }

\* the ids the calls have returned
ReturnedIds == { Get(paper_threads[t].order).id : t \in ReturnedCallers }

\* C33: the counter is not protected: as long as no two calls were inside
\* execute_order at the same time the ids returned are paper-1 .. paper-k,
\* no two calls return the same id and no id is skipped; calls that interleave
\* can both return the same id and skip an id.
C33_UniqueOnlyWhenSerialized ==
    (\A t \in EngineCallers : paper_threads[t].overlapped = { })
        => /\ \A t, u \in ReturnedCallers :
                 t # u => Get(paper_threads[t].order).id # Get(paper_threads[u].order).id
           /\ ReturnedIds = { << "paper", n >> : n \in 1..Cardinality(ReturnedCallers) }
           /\ \A t \in ReturnedCallers :
                 engine_order_counter >= Get(paper_threads[t].order).id[2]

\* two interleaved calls both returned paper-2: the id is a duplicate and
\* paper-1 was skipped
C33_Witness ==
    /\ ReturnedCallers = EngineCallers
    /\ \E t, u \in ReturnedCallers :
          /\ t # u
          /\ Get(paper_threads[t].order).id = << "paper", 2 >>
          /\ Get(paper_threads[u].order).id = << "paper", 2 >>
    /\ << "paper", 1 >> \notin ReturnedIds

----------------------------------------------------------------------------
(* Further properties of the listener: progress, order of signals, restart *)

\* the steps of the listener thread
WorkerNext ==
    \/ run
    \/ run_finished
    \/ passive_loop_capture
    \/ passive_loop_transcribe
    \/ active_loop_enter
    \/ active_loop_capture
    \/ active_loop_transcribe

\* the listener thread is a running QThread and every capture and every
\* transcription call returns: a step of the thread that stays possible is
\* taken.  The callers of start_passive_listening, stop_listening and stop
\* are under no obligation.
FairListenerSpec == ListenerSpec /\ WF_vars(WorkerNext)

\* the model's caps on chunks and on caller requests are exhausted
ListenerBoundReached == nchunks >= MaxChunks \/ nrequests >= MaxRequests

\* C34: whenever the listener is in active mode it eventually leaves it, to
\* passive (command or timeout) or to idle (stop), whatever the captures and
\* transcriptions return.
C34_ActiveEventuallyLeft ==
    (listener_mode = "active") ~> (listener_mode # "active" \/ ListenerBoundReached)

\* the positions of the emitted signals named name
Positions(name) == { i \in DOMAIN events : events[i].signal = name }

C36_StartNeverLost ==
    (has_sd /\ ~stop_event /\ listener_mode = "passive") => worker # "not_running"

----------------------------------------------------------------------------
(* Further properties of the order executor *)

\* C37: a paper market order is filled at the effective price that was used to
\* compute its quantity and required margin, so that for amount_type usd
\* the cost of the fill is the requested amount.
C37_PaperFillAtSizingPrice ==
    (/\ pc \in { "record", "done" }
     /\ UsePaper(paper_trading_enabled)
     /\ Get(params).order_type = "market"
     /\ ~IsNone(raw_order))
        => /\ Get(raw_order).price = Some(eff_price)
           /\ Get(params).amount_type = "usd" =>
                 RatMul(qty, Get(Get(raw_order).price)) = ToFloat(Get(params).amount)

\* the backend the flag selects
SelectedBackend ==
    IF UsePaper(paper_trading_enabled) THEN "paper_engine.execute_order" ELSE "create_order"

\* the order id is one the paper engine gave
IsPaperId(order_id) == ~IsNone(order_id) /\ Get(order_id)[1] = "paper"

\* C38: a call invokes db.insert_order at most once and only after its
\* dispatch returned an order from the selected backend; a call that failed
\* in validation, price resolution, balance check or dispatch invokes it not
\* at all; every row of the order store carries the is_paper_trade flag of
\* the backend that executed its order, and the store holds at most one row
\* per call.
C38_InsertOnlyAfterDispatch ==
    /\ Count("insert_order") <= 1
    /\ Has("insert_order") =>
          /\ dispatched
          /\ ~IsNone(raw_order)
          /\ result.success \/ category = "unexpected"
          /\ Count(SelectedBackend) = 1
          /\ Before(SelectedBackend, "insert_order")
    /\ (Done /\ (~dispatched \/ IsNone(raw_order))) => ~Has("insert_order")
    /\ \A i \in DOMAIN db_orders :
          /\ db_orders[i].is_paper_trade =
                 (IF IsPaperId(db_orders[i].exchange_order_id) THEN 1 ELSE 0)
          /\ IsPaperId(db_orders[i].exchange_order_id) =>
                 Get(db_orders[i].exchange_order_id)[2] <= order_counter
    /\ Len(db_orders) <= ncalls

\* the store holds the row of a paper order and the row of a real order, and
\* the call that is ending made its one insert_order call
C38_Witness ==
    /\ Done
    /\ Has("insert_order")
    /\ \E i, j \in DOMAIN db_orders :
          db_orders[i].is_paper_trade = 1 /\ db_orders[j].is_paper_trade = 0

\* C39: when a call returns a result that is no success, the caller's
\* OrderParams is what the caller passed; the symbol is never replaced by
\* none.
C39_ParamsUnchangedOnFailure ==
    /\ (Done /\ outcome = "returned" /\ ~result.success) => params = params0
    /\ ~IsNone(params) => ~IsNone(Get(params).symbol)

----------------------------------------------------------------------------
(* Further properties of the command parser: sell instructions *)

\* the keyword is one of the whitespace-delimited words of the text (a run of
\* them, for a keyword of several words)
IsWordOf(keyword, text) ==
    Contains(<< " " >> \o keyword \o << " " >>, << " " >> \o text \o << " " >>)

AnyWordOf(keywords, text) == \E n \in DOMAIN keywords : IsWordOf(keywords[n], text)

\* the words of the utterance include a sell keyword and no buy, close or
\* cancel keyword
SellInstruction(text) ==
    /\ AnyWordOf(SELL_KEYWORDS, lower(text))
    /\ ~AnyWordOf(BUY_KEYWORDS, lower(text))
    /\ ~AnyWordOf(CLOSE_KEYWORDS, lower(text))
    /\ ~AnyWordOf(CANCEL_KEYWORDS, lower(text))

\* C40: parse never turns a sell instruction into a buy: an utterance whose
\* words include a sell keyword and no buy, close or cancel keyword gives a
\* result with action sell and side sell, whatever alias names the coin and
\* whatever currency word marks the amount.
C40_SellStaysSell ==
    (Parsed /\ SellInstruction(Get(parse_input).text)) =>
        /\ Get(parse_result).action = "sell"
        /\ Get(parse_result).side = "sell"

====
